---- MODULE Spec2Model ----
(***************************************************************************)
(* Chart-release backup / restore of the kubernetes plugin                 *)
(* (plugins/kubernetes_linux/backup.py, restore.py), the cluster lifecycle *)
(* (lifecycle.py) and the node taints (k8s/core_api.py).                   *)
(*                                                                         *)
(* Callers invoke backup_chart_releases, restore_backup and delete_backup  *)
(* concurrently.  Every middleware call a handler makes is one step of the *)
(* caller; a caller whose pc names a call is inside that call.             *)
(*                                                                         *)
(* Spec and SeqSpec run the backup operations, LifeSpec the lifecycle      *)
(* operations, StopSpec the backup operations together with the shutdown   *)
(* event and status_change, TaintSpec the taint calls on the node,         *)
(* StartSpec the post_start tasks under the fairness of the event loop,    *)
(* HookSpec post_system_update_hook, SyncSpec restore_backup next to       *)
(* catalog sync jobs, WaitSpec restore_backup next to the post_start task  *)
(* it starts, ImportSpec restore_backup of a backup in every state an      *)
(* export leaves on disk, ListSpec list_backups over snapshots and         *)
(* directories, and ConfigSpec status_change with its config.json.         *)
(***************************************************************************)
EXTENDS Integers, Sequences, FiniteSets, TLC

\* ---------------------------------------------------------------- bounds
MaxCalls == 3
MaxFaults == 1
MaxLifeCalls == 2
MaxTasks == 2
MaxUpdateBackups == 4

Callers == {"c1", "c2"}

\* ------------------------------------------------------- program constants
BACKUP_NAME_PREFIX == "ix-applications-backup-"
CHART_NAMESPACE_PREFIX == "ix-"
UPDATE_BACKUP_PREFIX == "system-update-"
Dataset == "tank/ix-applications"

\* backup_name arguments: a user-supplied name, no name (a name is derived
\* from the clock) and a string that is no legal snapshot name
NULL == "null"
UserNames == {"x"}
ClockNames == {"2024-01-01_00:00:00"}
InvalidNames == {"x@y"}
ValidNames == UserNames \cup ClockNames
ArgNames == UserNames \cup InvalidNames \cup ClockNames

Releases == {"nginx", "plex"}
ReleaseOrder == <<"nginx", "plex">>
SecretNames == {"helm.v1", "malformed"}
SecretsWithData == {"helm.v1"}
SecretChoices == {{"helm.v1", "malformed"}, {"malformed"}}
ReplicasOf == [r \in Releases |-> IF r = "plex" THEN 2 ELSE 1]

VARIABLES
    pool_configured,   \* kubernetes.pool_configured
    passthrough_mode,  \* kubernetes.config()['passthrough_mode']
    config_json,       \* /mnt/<dataset>/config.json against kubernetes.config()
    k8s_started,       \* service.started('kubernetes')
    snapshots,         \* snapshots of the applications dataset, oldest first
    backup_dirs,       \* /mnt/<dataset>/backups/<name> trees
    releases_datasets, \* children of <dataset>/releases
    k8s,               \* per release: namespace and secrets in the cluster
    pc,                \* per caller: the call it is in
    op,                \* per caller: the method it runs
    arg,               \* per caller: the backup_name argument
    loc,               \* per caller: local variables of the handler
    result,            \* per caller: how the last call ended
    calls,             \* per caller: the middleware calls made, in order
    ncalls,            \* number of method calls made so far
    faults,            \* number of collaborator failures so far
    STATUS,            \* KubernetesService.STATUS: status and description
    alerts,            \* one-shot alerts raised, by class
    START_LOCK,        \* the caller holding START_LOCK
    post_start_tasks,  \* kubernetes.post_start tasks created and not yet started
    taints,            \* spec.taints of the node
    taint_call,        \* the last Node.add_taint / remove_taint call and its outcome
    frame              \* per caller: exception in flight, seconds slept in a wait

vars == <<pool_configured, passthrough_mode, config_json, k8s_started, snapshots, backup_dirs,
          releases_datasets, k8s, pc, op, arg, loc, result, calls, ncalls, faults,
          STATUS, alerts, START_LOCK, post_start_tasks, taints, taint_call, frame>>

\* what the backup, restore and delete handlers themselves never write
env == <<pool_configured, passthrough_mode, config_json, releases_datasets,
         STATUS, alerts, START_LOCK, post_start_tasks, taints, taint_call, frame>>

\* what the lifecycle and taint operations never write
store == <<passthrough_mode, config_json, snapshots, backup_dirs, releases_datasets, k8s, arg, loc>>

\* ------------------------------------------------------------ file system
NoFile == [state |-> "none", data |-> {}]
EmptyFile == [state |-> "empty", data |-> {}]
FullFile(d) == [state |-> "full", data |-> d]

NoRelease == [present |-> FALSE, ns |-> NoFile, secdir |-> FALSE, secrets |-> {},
              counts |-> NoFile]
NoDir == [exists |-> FALSE, rel |-> [r \in Releases |-> NoRelease]]
EmptyDir == [exists |-> TRUE, rel |-> [r \in Releases |-> NoRelease]]

\* os.listdir(backup_path)
ListDir(d) == {r \in Releases : d.rel[r].present}

\* ------------------------------------------------------------- snapshots
\* the snapshot is named after the backup alone
SnapNameBare(name) == <<"", name>>

SnapName(name) == <<BACKUP_NAME_PREFIX, name>>
SnapId(name) == <<Dataset, SnapName(name)>>
SnapIds == {snapshots[i].id : i \in 1..Len(snapshots)}
SnapshotExists(id) == id \in SnapIds
SnapIndex(id) == CHOOSE i \in 1..Len(snapshots) : snapshots[i].id = id

RECURSIVE Remove(_, _)
Remove(seq, id) ==
    IF seq = <<>> THEN <<>>
    ELSE IF Head(seq).id = id THEN Remove(Tail(seq), id)
    ELSE <<Head(seq)>> \o Remove(Tail(seq), id)

\* ---------------------------------------------------------- list_backups
\* lines 125-144: the entry built for one snapshot
BackupData(snapshot) ==
    LET backup_name == snapshot.id[2][2]
    IN [name |-> backup_name,
        releases |-> {r \in ListDir(backup_dirs[backup_name]) : r \in releases_datasets},
        snapshot_name |-> snapshot.id,
        created_on |-> SnapIndex(snapshot.id),
        backup_path |-> backup_name]

\* list_backups without the os.path.exists test of lines 128-129
ListBackupsValuesAnyDir ==
    IF ~pool_configured \/ passthrough_mode THEN {}
    ELSE {BackupData(snapshots[i]) :
            i \in {j \in 1..Len(snapshots) :
                     /\ snapshots[j].id[1] = Dataset
                     /\ snapshots[j].id[2][1] = BACKUP_NAME_PREFIX}}

\* the values of the dict list_backups returns
ListBackupsValues ==
    IF ~pool_configured \/ passthrough_mode THEN {}
    ELSE {BackupData(snapshots[i]) :
            i \in {j \in 1..Len(snapshots) :
                     /\ snapshots[j].id[1] = Dataset
                     /\ snapshots[j].id[2][1] = BACKUP_NAME_PREFIX
                     /\ backup_dirs[snapshots[j].id[2][2]].exists}}

\* the keys of the dict list_backups returns
ListBackups == {b.name : b \in ListBackupsValues}

\* list_backups().get(backup_name) for a key of the dict
GetBackup(name) == CHOOSE b \in ListBackupsValues : b.name = name

NoBackup == [name |-> "null", releases |-> {}, snapshot_name |-> <<>>,
             created_on |-> 0, backup_path |-> "null"]

\* ------------------------------------------------------------------ jobs
NoLock == "no_lock"

\* the job decorators without lock=
JobLockUnlocked(method) == NoLock

JobLock(method) ==
    CASE method = "backup" -> "chart_releases_backup"
      [] method = "restore" -> "kubernetes_restore_backup"
      [] OTHER -> NoLock

Running(c) == pc[c] \notin {"idle", "wait", "done"}

LockHeld(l) == \E c \in Callers : Running(c) /\ JobLock(op[c]) = l

NoLocals == [name |-> NULL, backup |-> NoBackup, backup_dir |-> NULL,
             chart_releases |-> <<>>, releases |-> <<>>, index |-> 0, restored |-> {},
             progress |-> <<>>, backups |-> <<>>, deleted |-> <<>>, failed |-> FALSE,
             id |-> 0, catalog_sync_jobs |-> {},
             config |-> [node_configured |-> FALSE, taints |-> <<>>],
             zfs |-> <<>>, listed |-> {}]

\* job.set_progress(percent, description): a percentage is a fraction num/den;
\* release is TRUE for the percentage reported for one release of a loop
Pct(percent) == [num |-> percent, den |-> 1, release |-> FALSE]

\* base + ((index + 1) / n) * span with one step too many
LoopPctNext(base, index, n, span) ==
    [num |-> base * n + (index + 2) * span, den |-> n, release |-> TRUE]

\* base + ((index + 1) / n) * span
LoopPct(base, index, n, span) ==
    [num |-> base * n + (index + 1) * span, den |-> n, release |-> TRUE]

\* l with the percentages of reported added to the progress of the job of c
SetProgress(l, c, reported) == [l EXCEPT ![c].progress = @ \o reported]

\* the percentage a step reports before its first collaborator call
ProgressAtEntry(label) ==
    CASE label = "b_release_query" -> <<Pct(10)>>
      [] label = "b_snapshot" -> <<Pct(95)>>
      [] label = "r_prepare" -> <<Pct(15)>>
      [] label = "r_rollback" -> <<Pct(20)>>
      [] label = "r_service_start" -> <<Pct(25)>>
      [] label = "r_create_resources" -> <<Pct(92)>>
      [] OTHER -> <<>>

CanFail == faults < MaxFaults

Finish(c, res) ==
    /\ pc' = [pc EXCEPT ![c] = "done"]
    /\ result' = [result EXCEPT ![c] = res]

Goto(c, label) ==
    /\ pc' = [pc EXCEPT ![c] = label]
    /\ UNCHANGED result

\* a collaborator call raises: the handler has no try/except around it
Raise(c) ==
    /\ CanFail
    /\ faults' = faults + 1
    /\ Finish(c, "Error")

Log(c, what) == calls' = [calls EXCEPT ![c] = Append(@, what)]

\* ---------------------------------------------------------- cluster status
Status == {"PENDING", "RUNNING", "INITIALIZING", "STOPPING", "STOPPED",
           "UNCONFIGURED", "FAILED"}

STATUS_DESCRIPTIONS ==
    [s \in Status |->
        CASE s = "PENDING" -> "Application(s) state is to be determined yet"
          [] s = "RUNNING" -> "Application(s) are currently running"
          [] s = "INITIALIZING" -> "Application(s) are being initialized"
          [] s = "STOPPING" -> "Application(s) are being stopped"
          [] s = "STOPPED" -> "Application(s) have been stopped"
          [] s = "UNCONFIGURED" -> "Application(s) are not configured"
          [] OTHER -> "Application(s) have failed to start"]

APPS_STATUS(status, description) == [status |-> status, description |-> description]

\* A message is the sequence of its words; no message (None, or '') is <<>>.
NoExtra == <<>>

\* the description set_status builds: the text of the status, then `extra`
Description(new_status, extra) ==
    IF extra # NoExtra THEN <<STATUS_DESCRIPTIONS[new_status]>> \o extra
    ELSE <<STATUS_DESCRIPTIONS[new_status]>>

SetStatus(new_status, extra) ==
    STATUS' = APPS_STATUS(new_status, Description(new_status, extra))

\* exceptions
CallError(errmsg, errno) == [type |-> "CallError", errmsg |-> errmsg, errno |-> errno]
Exception(errmsg) == [type |-> "Exception", errmsg |-> errmsg, errno |-> "none"]
NoExc == [type |-> "none", errmsg |-> <<>>, errno |-> "none"]

\* str(e): a CallError prints its errno before its message
Str(e) == IF e.type = "CallError" THEN <<e.errno>> \o e.errmsg ELSE e.errmsg

\* the error a failing collaborator raises
Boom == Exception(<<"collaborator", "failed">>)

\* alert.oneshot_create / alert.oneshot_delete
AlertClasses == {"ApplicationsStartFailed", "ApplicationsConfigurationFailed"}
OneshotCreate(klass, error) ==
    alerts' = {a \in alerts : a.klass # klass} \cup {[klass |-> klass, error |-> error]}
OneshotDelete(klass) == alerts' = {a \in alerts : a.klass # klass}
Alerted(klass) == \E a \in alerts : a.klass = klass

\* ------------------------------------------------------ the datasets
\* A string is the sequence of its parts: kubernetes.config() has pool 'tank'
\* and dataset 'tank/ix-applications'.
ConfigPool == <<"tank">>
ConfigDataset == <<"tank", "/", "ix-applications">>

\* os.path.join(a, b)
PathJoin(a, b) == a \o <<"/">> \o b

\* set(str): the elements of a string are the pieces it is made of
SetOfStr(str) == {<<str[i]>> : i \in 1..Len(str)}

\* str.startswith(prefix)
StartsWith(str, prefix) ==
    Len(str) >= Len(prefix) /\ SubSeq(str, 1, Len(prefix)) = prefix

\* lines 356-362
kubernetes_datasets(k8s_ds) ==
    {k8s_ds} \cup {PathJoin(k8s_ds, d) :
                      d \in {<<"k3s">>, <<"k3s", "/", "kubelet">>, <<"releases">>,
                             <<"default_volumes">>, <<"catalogs">>}}

\* f'/mnt/{k}'
Mnt(k) == <<"/", "mnt", "/">> \o k

\* an entry of zfs.dataset.locked_datasets
Locked(id, mountpoint) == [id |-> id, mountpoint |-> mountpoint]

\* what validate_k8s_fs_setup finds: whether the pool is there, the datasets
\* of the applications tree that exist, the locked datasets of the system
FsState(pool, existing, locked) ==
    [pool |-> pool, existing |-> existing, locked |-> locked]

FsFine == FsState(TRUE, kubernetes_datasets(ConfigDataset), {})

\* a dataset exists only if its parent does
FsStates ==
    {FsFine, FsState(FALSE, kubernetes_datasets(ConfigDataset), {})}
    \cup {FsState(TRUE, kubernetes_datasets(ConfigDataset) \ gone, {}) :
            gone \in {kubernetes_datasets(ConfigDataset),
                      {PathJoin(ConfigDataset, <<"k3s">>), PathJoin(ConfigDataset, <<"k3s", "/", "kubelet">>)},
                      {PathJoin(ConfigDataset, <<"releases">>)},
                      {PathJoin(ConfigDataset, <<"default_volumes">>)}}}
    \cup {FsState(TRUE, kubernetes_datasets(ConfigDataset), {l}) :
            l \in {Locked(ConfigDataset, Mnt(ConfigDataset)),
                   Locked(ConfigPool, Mnt(ConfigPool)),
                   Locked(PathJoin(ConfigDataset, <<"releases">>),
                          Mnt(PathJoin(ConfigDataset, <<"releases">>))),
                   Locked(PathJoin(ConfigDataset, <<"k3s", "/", "kubelet">>), <<"legacy">>),
                   Locked(<<"other">>, Mnt(<<"other">>))}}

NoFrame == [e |-> NoExc, slept |-> 0, blocked |-> FALSE, fs |-> FsFine,
            clean_start |-> FALSE]

\* -------------------------------------------------------------- node taints
MaxTaints == 3

Absent == "absent"
TaintKeys == {"ix-svc-start", "node.kubernetes.io/not-ready"}
Effects == {"NoExecute", "NoSchedule"}
TaintValues == {NULL, "v"}
Taints == [key : TaintKeys, effect : Effects, value : TaintValues]

\* taint_dict arguments: dict.get of a missing 'value' is None; a dict may
\* lack 'effect'
TaintDicts == [key : TaintKeys, effect : Effects \cup {Absent}, value : TaintValues]

SvcStartTaint == [key |-> "ix-svc-start", effect |-> "NoExecute", value |-> NULL]
NotReadyTaint == [key |-> "node.kubernetes.io/not-ready", effect |-> "NoSchedule",
                  value |-> NULL]

\* all(taint.get(k) == taint_dict.get(k) for k in ('key', 'effect', 'value'))
SameTaint(taint, taint_dict) ==
    /\ taint.key = taint_dict.key
    /\ taint.effect = taint_dict.effect
    /\ taint.value = taint_dict.value

NodeUpdate(res, sent, ts) == [result |-> res, update |-> sent, taints |-> ts]

\* add_taint without the early return of the loop
AddTaintNoCheck(ts, taint_dict) ==
    IF taint_dict.effect = Absent THEN NodeUpdate("AssertionError", FALSE, ts)
    ELSE NodeUpdate("ok", TRUE, Append(ts, taint_dict))

\* add_taint comparing the first taint of the node only
AddTaintFirstOnly(ts, taint_dict) ==
    IF taint_dict.effect = Absent THEN NodeUpdate("AssertionError", FALSE, ts)
    ELSE IF ts # <<>> /\ SameTaint(ts[1], taint_dict) THEN NodeUpdate("ok", FALSE, ts)
    ELSE NodeUpdate("ok", TRUE, Append(ts, taint_dict))

\* Node.add_taint on a node whose taints are ts: the result, whether a node
\* update is sent, and the taints the update carries
AddTaint(ts, taint_dict) ==
    IF taint_dict.effect = Absent THEN NodeUpdate("AssertionError", FALSE, ts)
    ELSE IF \E i \in 1..Len(ts) : SameTaint(ts[i], taint_dict)
    THEN NodeUpdate("ok", FALSE, ts)
    ELSE NodeUpdate("ok", TRUE, Append(ts, taint_dict))

\* taints.pop(index)
Pop(ts, index) == SubSeq(ts, 1, index - 1) \o SubSeq(ts, index + 1, Len(ts))

Max(S) == CHOOSE x \in S : \A y \in S : y <= x

\* for index in sorted(indexes, reverse=True): taints.pop(index)
RECURSIVE PopAll(_, _)
PopAll(ts, indexes) ==
    IF indexes = {} THEN ts
    ELSE PopAll(Pop(ts, Max(indexes)), indexes \ {Max(indexes)})

\* remove_taint that returns when no taint has the key
RemoveTaintSilent(ts, taint_key) ==
    LET indexes == {i \in 1..Len(ts) : ts[i].key = taint_key}
    IN IF indexes = {} THEN NodeUpdate("ok", FALSE, ts)
       ELSE NodeUpdate("ok", TRUE, PopAll(ts, indexes))

\* Node.remove_taint on a node whose taints are ts
RemoveTaint(ts, taint_key) ==
    LET indexes == {i \in 1..Len(ts) : ts[i].key = taint_key}
    IN IF indexes = {} THEN NodeUpdate("ApiException", FALSE, ts)
       ELSE NodeUpdate("ok", TRUE, PopAll(ts, indexes))

\* cls.update: the API server rejects a node whose taints are not distinct
\* by key and effect
ApiAccepts(ts) ==
    \A i, j \in 1..Len(ts) :
        i # j => (ts[i].key # ts[j].key \/ ts[i].effect # ts[j].effect)

NoTaintCall == [op |-> "none", arg |-> NULL, result |-> "none", update |-> "none"]
TaintCall(method, a, res, sent) ==
    [op |-> method, arg |-> a, result |-> res, update |-> sent]

Init ==
    /\ config_json = "current"
    /\ pool_configured \in BOOLEAN
    /\ passthrough_mode \in BOOLEAN
    /\ (~pool_configured => ~passthrough_mode)
    /\ k8s_started = TRUE
    /\ snapshots = <<>>
    /\ backup_dirs = [n \in ValidNames |-> NoDir]
    /\ releases_datasets = Releases
    /\ k8s \in [Releases -> [ns : {TRUE}, secrets : SecretChoices]]
    /\ pc = [c \in Callers |-> "idle"]
    /\ op = [c \in Callers |-> "none"]
    /\ arg = [c \in Callers |-> NULL]
    /\ loc = [c \in Callers |-> NoLocals]
    /\ result = [c \in Callers |-> "none"]
    /\ calls = [c \in Callers |-> <<>>]
    /\ ncalls = 0
    /\ faults = 0
    /\ STATUS = APPS_STATUS("RUNNING", Description("RUNNING", NoExtra))
    /\ alerts = {}
    /\ START_LOCK = NULL
    /\ post_start_tasks = 0
    /\ taints = <<>>
    /\ taint_call = NoTaintCall
    /\ frame = [c \in Callers |-> NoFrame]

\* A caller invokes a method.  Jobs are queued; delete_backup is a plain call.
Invoke(c, method, name) ==
    /\ pc[c] = "idle"
    /\ ncalls < MaxCalls
    /\ ncalls' = ncalls + 1
    /\ op' = [op EXCEPT ![c] = method]
    /\ arg' = [arg EXCEPT ![c] = name]
    /\ loc' = [loc EXCEPT ![c] = NoLocals]
    /\ calls' = [calls EXCEPT ![c] = <<>>]
    /\ result' = [result EXCEPT ![c] = "none"]
    /\ pc' = [pc EXCEPT ![c] = IF method = "delete" THEN "d_validate" ELSE "wait"]
    /\ UNCHANGED <<env, k8s_started, snapshots, backup_dirs, k8s, faults>>

\* The job runner starts a queued job once no running job holds its lock.
JobStart(c) ==
    /\ pc[c] = "wait"
    /\ JobLock(op[c]) = NoLock \/ ~LockHeld(JobLock(op[c]))
    /\ Goto(c, CASE op[c] = "backup" -> "b_validate"
                  [] op[c] = "sync" -> "sy_run"
                  [] OTHER -> "r_validate")
    /\ UNCHANGED <<env, k8s_started, snapshots, backup_dirs, k8s, op, arg, loc,
                   calls, ncalls, faults>>

\* The caller has seen the outcome of its call.
Return(c) ==
    /\ pc[c] = "done"
    /\ pc' = [pc EXCEPT ![c] = "idle"]
    /\ op' = [op EXCEPT ![c] = "none"]
    /\ arg' = [arg EXCEPT ![c] = NULL]
    /\ loc' = [loc EXCEPT ![c] = NoLocals]
    /\ calls' = [calls EXCEPT ![c] = <<>>]
    /\ result' = [result EXCEPT ![c] = "none"]
    /\ UNCHANGED <<env, k8s_started, snapshots, backup_dirs, k8s, ncalls, faults>>

\* ---------------------------------------------------------------- export
\* kubernetes.validate_k8s_setup: the pool is configured for applications and
\* the kubernetes service is running
ValidateK8sSetup == pool_configured /\ ~passthrough_mode /\ k8s_started

\* validate_snapshot_name(f'a@{name}')
ValidateSnapshotName(name) == name \notin InvalidNames

\* chart.release.query: the releases of the cluster, by name
RECURSIVE SelectSeq2(_, _)
SelectSeq2(seq, set) ==
    IF seq = <<>> THEN <<>>
    ELSE IF Head(seq) \in set THEN <<Head(seq)>> \o SelectSeq2(Tail(seq), set)
    ELSE SelectSeq2(Tail(seq), set)

ChartReleaseQuery == SelectSeq2(ReleaseOrder, {r \in Releases : k8s[r].ns})

\* chart.release.get_replica_count_for_resources
ReplicaCounts(r) == [res \in {<<"deployment", r>>} |-> ReplicasOf[r]]

\* json.dumps / json.loads of a name -> count map
JsonDumps(f) == {<<k, f[k]>> : k \in DOMAIN f}
JsonLoads(d) == [k \in {p[1] : p \in d} |-> (CHOOSE p \in d : p[1] = k)[2]]

\* k8s.namespace.export_to_yaml
NamespaceYaml(r) == [name |-> <<CHART_NAMESPACE_PREFIX, r>>, resourceVersion |-> "rv"]

\* filter(lambda d: d.get('data'), secrets)
SecretsToExport(r) == k8s[r].secrets \cap SecretsWithData

\* What lines 56-78 leave on disk for one release when they stop at `stage`
ExportedRelease(r, stage) ==
    CASE stage = "namespace" ->
           [NoRelease EXCEPT !.present = TRUE, !.ns = EmptyFile]
      [] stage = "secret_query" ->
           [NoRelease EXCEPT !.present = TRUE, !.ns = FullFile(NamespaceYaml(r)),
                             !.secdir = TRUE]
      [] stage = "secret_export" ->
           [NoRelease EXCEPT !.present = TRUE, !.ns = FullFile(NamespaceYaml(r)),
                             !.secdir = TRUE,
                             !.secrets = {<<s, "empty">> : s \in SecretsToExport(r)}]
      [] stage = "replica_counts" ->
           [NoRelease EXCEPT !.present = TRUE, !.ns = FullFile(NamespaceYaml(r)),
                             !.secdir = TRUE,
                             !.secrets = {<<s, "full">> : s \in SecretsToExport(r)},
                             !.counts = EmptyFile]
      [] OTHER ->
           [NoRelease EXCEPT !.present = TRUE, !.ns = FullFile(NamespaceYaml(r)),
                             !.secdir = TRUE,
                             !.secrets = {<<s, "full">> : s \in SecretsToExport(r)},
                             !.counts = FullFile(JsonDumps(ReplicaCounts(r)))]

FailStages(r) ==
    {"namespace", "secret_query", "replica_counts"}
        \cup (IF SecretsToExport(r) = {} THEN {} ELSE {"secret_export"})

\* ------------------------------------------------- backup_chart_releases
\* lines 29-35
BackupValidate(c) ==
    /\ pc[c] = "b_validate"
    /\ \E name \in (IF arg[c] = NULL THEN ClockNames ELSE {arg[c]}) :
         IF ~ValidateK8sSetup \/ ~ValidateSnapshotName(name)
         THEN Finish(c, "CallError") /\ UNCHANGED loc
         ELSE Goto(c, "b_snapshot_query") /\ loc' = [loc EXCEPT ![c].name = name]
    /\ UNCHANGED <<env, k8s_started, snapshots, backup_dirs, k8s, op, arg, calls,
                   ncalls, faults>>

\* lines 37-39 without the raise
BackupSnapshotQueryNoCheck(c) ==
    /\ pc[c] = "b_snapshot_query"
    /\ Goto(c, "b_list_backups")
    /\ UNCHANGED <<env, k8s_started, snapshots, backup_dirs, k8s, op, arg, loc,
                   calls, ncalls, faults>>

\* lines 37-39
BackupSnapshotQuery(c) ==
    /\ pc[c] = "b_snapshot_query"
    /\ IF SnapshotExists(SnapId(loc[c].name))
       THEN Finish(c, "CallError:EEXIST")
       ELSE Goto(c, "b_list_backups")
    /\ UNCHANGED <<env, k8s_started, snapshots, backup_dirs, k8s, op, arg, loc,
                   calls, ncalls, faults>>

\* lines 41-42
BackupListBackups(c) ==
    /\ pc[c] = "b_list_backups"
    /\ IF loc[c].name \in ListBackups
       THEN Finish(c, "CallError:EEXIST")
       ELSE Goto(c, "b_makedirs")
    /\ UNCHANGED <<env, k8s_started, snapshots, backup_dirs, k8s, op, arg, loc,
                   calls, ncalls, faults>>

\* lines 44-47: os.makedirs(backup_dir) raises FileExistsError (errno EEXIST)
BackupMakedirs(c) ==
    /\ pc[c] = "b_makedirs"
    /\ IF backup_dirs[loc[c].name].exists
       THEN Finish(c, "FileExistsError:EEXIST") /\ UNCHANGED backup_dirs
       ELSE /\ Goto(c, "b_release_query")
            /\ backup_dirs' = [backup_dirs EXCEPT ![loc[c].name] = EmptyDir]
    /\ loc' = [loc EXCEPT ![c].backup_dir = loc[c].name]
    /\ UNCHANGED <<env, k8s_started, snapshots, k8s, op, arg, calls, ncalls, faults>>

\* lines 49-51
BackupReleaseQuery(c) ==
    /\ pc[c] = "b_release_query"
    /\ loc' = [SetProgress(loc, c, <<Pct(10)>>) EXCEPT
                  ![c].chart_releases = ChartReleaseQuery, ![c].index = 0]
    /\ Goto(c, IF ChartReleaseQuery = <<>> THEN "b_snapshot" ELSE "b_export")
    /\ UNCHANGED <<env, k8s_started, snapshots, backup_dirs, k8s, op, arg, calls,
                   ncalls, faults>>

\* the loop of lines 52-78 left after its first iteration
BackupExportOnce(c) ==
    /\ pc[c] = "b_export"
    /\ LET r == loc[c].chart_releases[loc[c].index + 1]
           name == loc[c].backup_dir
       IN /\ backup_dirs' = [backup_dirs EXCEPT ![name].exists = TRUE,
                                ![name].rel[r] = ExportedRelease(r, "done")]
          /\ loc' = [SetProgress(loc, c, <<LoopPct(10, loc[c].index,
                                                   Len(loc[c].chart_releases), 80)>>)
                        EXCEPT ![c].index = @ + 1]
          /\ Goto(c, "b_snapshot")
    /\ UNCHANGED <<env, k8s_started, snapshots, k8s, op, arg, calls, ncalls, faults>>

\* lines 52-78, one iteration; os.makedirs(chart_release_backup_path) creates
\* missing parents and raises FileExistsError if the release directory exists
BackupExport(c) ==
    /\ pc[c] = "b_export"
    /\ LET r == loc[c].chart_releases[loc[c].index + 1]
           name == loc[c].backup_dir
           last == loc[c].index + 1 = Len(loc[c].chart_releases)
           reported == SetProgress(loc, c, <<LoopPct(10, loc[c].index,
                                                    Len(loc[c].chart_releases), 80)>>)
       IN IF backup_dirs[name].rel[r].present
          THEN /\ Finish(c, "FileExistsError:EEXIST")
               /\ loc' = reported
               /\ UNCHANGED <<backup_dirs, faults>>
          ELSE \/ /\ backup_dirs' = [backup_dirs EXCEPT ![name].exists = TRUE,
                                        ![name].rel[r] = ExportedRelease(r, "done")]
                  /\ loc' = [reported EXCEPT ![c].index = @ + 1]
                  /\ Goto(c, IF last THEN "b_snapshot" ELSE "b_export")
                  /\ UNCHANGED faults
               \/ \E stage \in FailStages(r) :
                  /\ Raise(c)
                  /\ backup_dirs' = [backup_dirs EXCEPT ![name].exists = TRUE,
                                        ![name].rel[r] = ExportedRelease(r, stage)]
                  /\ loc' = reported
    /\ UNCHANGED <<env, k8s_started, snapshots, k8s, op, arg, calls, ncalls>>

\* lines 80-89: zettarepl.create_recursive_snapshot_with_exclude returns
BackupSnapshot(c) ==
    /\ pc[c] = "b_snapshot"
    /\ IF SnapshotExists(SnapId(loc[c].name))
       THEN /\ Finish(c, "Error")
            /\ loc' = SetProgress(loc, c, <<Pct(95)>>)
            /\ UNCHANGED snapshots
       ELSE /\ snapshots' = Append(snapshots,
                                   [id |-> SnapId(loc[c].name), content |-> backup_dirs])
            /\ loc' = SetProgress(loc, c, <<Pct(95), Pct(100)>>)
            /\ Finish(c, "ok")
    /\ UNCHANGED <<env, k8s_started, backup_dirs, k8s, op, arg, calls, ncalls, faults>>

\* ----------------------------------------------------------- delete_backup
\* lines 154-158 returning instead of raising for an unknown backup
DeleteValidateSilent(c) ==
    /\ pc[c] = "d_validate"
    /\ IF ~ValidateK8sSetup THEN Finish(c, "CallError") /\ UNCHANGED loc
       ELSE IF arg[c] \notin ListBackups
       THEN Finish(c, "ok") /\ UNCHANGED loc
       ELSE /\ Goto(c, "d_snapshot_delete")
            /\ loc' = [loc EXCEPT ![c].backup = GetBackup(arg[c])]
    /\ UNCHANGED <<env, k8s_started, snapshots, backup_dirs, k8s, op, arg, calls,
                   ncalls, faults>>

\* lines 154-158
DeleteValidate(c) ==
    /\ pc[c] = "d_validate"
    /\ IF ~ValidateK8sSetup THEN Finish(c, "CallError") /\ UNCHANGED loc
       ELSE IF arg[c] \notin ListBackups
       THEN Finish(c, "CallError:ENOENT") /\ UNCHANGED loc
       ELSE /\ Goto(c, "d_snapshot_delete")
            /\ loc' = [loc EXCEPT ![c].backup = GetBackup(arg[c])]
    /\ UNCHANGED <<env, k8s_started, snapshots, backup_dirs, k8s, op, arg, calls,
                   ncalls, faults>>

\* line 160: zfs.snapshot.delete returns; it raises when the snapshot is gone
DeleteSnapshotDelete(c) ==
    /\ pc[c] = "d_snapshot_delete"
    /\ IF SnapshotExists(loc[c].backup.snapshot_name)
       THEN /\ snapshots' = Remove(snapshots, loc[c].backup.snapshot_name)
            /\ Goto(c, "d_rmtree")
       ELSE Finish(c, "Error") /\ UNCHANGED snapshots
    /\ UNCHANGED <<env, k8s_started, backup_dirs, k8s, op, arg, loc, calls, ncalls,
                   faults>>

\* line 161: shutil.rmtree(path, ignore_errors=True)
DeleteRmtree(c) ==
    /\ pc[c] = "d_rmtree"
    /\ \/ backup_dirs' = [backup_dirs EXCEPT ![loc[c].backup.backup_path] = NoDir]
       \/ backup_dirs[loc[c].backup.backup_path].exists /\ UNCHANGED backup_dirs
    /\ Finish(c, "ok")
    /\ UNCHANGED <<env, k8s_started, snapshots, k8s, op, arg, loc, calls, ncalls,
                   faults>>

\* ---------------------------------------------------------- restore_backup
\* service.start('kubernetes'): the unit is started and a kubernetes.post_start
\* task is created
ServiceStart ==
    /\ k8s_started' = TRUE
    /\ post_start_tasks' = post_start_tasks + 1

\* yaml.load of a file, then body['metadata'].pop('resourceVersion', None):
\* an empty document loads as None and the subscript raises TypeError
Loads(file) == file.state = "full"
LoadBody(file) == [file.data EXCEPT !.resourceVersion = "popped"]

\* lines 32-38 with service.stop called before the backup is looked up
RestoreValidateAfterStop(c) ==
    /\ pc[c] = "r_validate"
    /\ IF arg[c] \notin ListBackups
       THEN /\ Finish(c, "CallError:ENOENT")
            /\ k8s_started' = FALSE
            /\ Log(c, <<"service.stop">>)
            /\ UNCHANGED loc
       ELSE /\ Goto(c, "r_service_stop")
            /\ loc' = [SetProgress(loc, c, <<Pct(5)>>) EXCEPT
                          ![c].backup = GetBackup(arg[c])]
            /\ UNCHANGED <<k8s_started, calls>>
    /\ UNCHANGED <<env, snapshots, backup_dirs, k8s, op, arg, ncalls, faults>>

\* lines 32-36
RestoreValidate(c) ==
    /\ pc[c] = "r_validate"
    /\ IF arg[c] \notin ListBackups
       THEN Finish(c, "CallError:ENOENT") /\ UNCHANGED loc
       ELSE /\ Goto(c, "r_service_stop")
            /\ loc' = [SetProgress(loc, c, <<Pct(5)>>) EXCEPT
                          ![c].backup = GetBackup(arg[c])]
    /\ UNCHANGED <<env, k8s_started, snapshots, backup_dirs, k8s, op, arg, calls,
                   ncalls, faults>>

\* lines 38-39: service.stop is called
RestoreServiceStop(c) ==
    /\ pc[c] = "r_service_stop"
    /\ Goto(c, "stop_before")
    /\ UNCHANGED <<env, k8s_started, snapshots, backup_dirs, k8s, op, arg, loc,
                   calls, ncalls, faults>>

\* ------------------------------------------------------ catalog sync jobs
\* a catalog.sync / catalog.sync_all job is a call d with op[d] = "sync":
\* WAITING while queued, RUNNING inside the method
JobState(d) ==
    CASE pc[d] = "wait" -> "WAITING"
      [] pc[d] = "sy_run" -> "RUNNING"
      [] pc[d] = "done" /\ result[d] = "aborted" -> "ABORTED"
      [] OTHER -> "SUCCESS"

SyncJobs == {d \in Callers : op[d] = "sync"}

\* core.get_jobs with the filter of lines 47-52
GetJobs ==
    {[id |-> loc[d].id, state |-> JobState(d)] :
        d \in {j \in SyncJobs : JobState(j) \in {"RUNNING", "WAITING"}}}

\* the job with this id is in this state now
JobIs(id, state) == \E d \in SyncJobs : loc[d].id = id /\ JobState(d) = state

\* lines 39-52: clear /etc/rancher and cni_config, query the catalog sync jobs
RestorePrepare(c) ==
    /\ pc[c] = "r_prepare"
    /\ loc' = [SetProgress(loc, c, <<Pct(15)>>) EXCEPT ![c].catalog_sync_jobs = GetJobs]
    /\ Goto(c, "r_sync_abort")
    /\ UNCHANGED <<env, k8s_started, snapshots, backup_dirs, k8s, op, arg,
                   calls, ncalls, faults>>

\* lines 54-55: core.job_abort of the jobs that were WAITING when queried.  A
\* job that is still WAITING becomes ABORTED; one that runs by now is aborted
\* or left running.
RestoreSyncAbort(c) ==
    /\ pc[c] = "r_sync_abort"
    /\ LET ids == {j.id : j \in {k \in loc[c].catalog_sync_jobs : k.state = "WAITING"}}
           waiting == {d \in SyncJobs : loc[d].id \in ids /\ JobState(d) = "WAITING"}
           running == {d \in SyncJobs : loc[d].id \in ids /\ JobState(d) = "RUNNING"}
       IN \E stopped \in SUBSET running :
            /\ pc' = [d \in Callers |->
                        IF d = c THEN "r_sync_wait"
                        ELSE IF d \in waiting \cup stopped THEN "done" ELSE pc[d]]
            /\ result' = [d \in Callers |->
                            IF d \in waiting \cup stopped THEN "aborted" ELSE result[d]]
    /\ UNCHANGED <<env, k8s_started, snapshots, backup_dirs, k8s, op, arg, loc,
                   calls, ncalls, faults>>

\* lines 57-61: wait_sync() of each job that was RUNNING when queried and is
\* RUNNING still
RestoreSyncWait(c) ==
    /\ pc[c] = "r_sync_wait"
    /\ \A j \in loc[c].catalog_sync_jobs :
          j.state = "RUNNING" => ~JobIs(j.id, "RUNNING")
    /\ loc' = SetProgress(loc, c, <<Pct(17)>>)
    /\ Goto(c, "r_dataset_delete")
    /\ UNCHANGED <<env, k8s_started, snapshots, backup_dirs, k8s, op, arg,
                   calls, ncalls, faults>>

\* backup.py lines 92-99: the datasets a backup leaves out, in the order of
\* the dict, with the way each is created anew
to_ignore_datasets_on_backup(k8s_dataset) ==
    << [name |-> PathJoin(k8s_dataset, <<"catalogs">>), mount |-> TRUE,
        creation_props |-> {}],
       [name |-> PathJoin(k8s_dataset, <<"k3s", "/", "kubelet">>), mount |-> FALSE,
        creation_props |-> {"mountpoint=legacy"}] >>

\* the zfs calls of a restore with their arguments, in the order made
Zfs(l, c, made) == [l EXCEPT ![c].zfs = @ \o made]

\* lines 63-65: zfs.dataset.delete of catalogs and k3s/kubelet returns
RestoreDatasetDelete(c) ==
    /\ pc[c] = "r_dataset_delete"
    /\ Log(c, <<"zfs.dataset.delete">>)
    /\ LET fresh_datasets == to_ignore_datasets_on_backup(ConfigDataset)
       IN loc' = Zfs(loc, c, [i \in 1..Len(fresh_datasets) |->
                                <<"zfs.dataset.delete", fresh_datasets[i].name,
                                  {"force", "recursive"}>>])
    /\ Goto(c, "r_rollback")
    /\ UNCHANGED <<env, k8s_started, snapshots, backup_dirs, k8s, op, arg,
                   ncalls, faults>>

\* lines 68-75: the rollback call with its options
RollbackCall(c) ==
    << <<"zfs.snapshot.rollback", loc[c].backup.snapshot_name,
         {"force", "recursive", "recursive_clones", "recursive_rollback"}>> >>

\* lines 67-75 left out: the restore goes on without a rollback
RestoreRollbackSkipped(c) ==
    /\ pc[c] = "r_rollback"
    /\ loc' = SetProgress(loc, c, <<Pct(20)>>)
    /\ Goto(c, "r_dataset_create")
    /\ UNCHANGED <<env, k8s_started, snapshots, backup_dirs, k8s, op, arg,
                   calls, ncalls, faults>>

\* lines 67-75 inside a try/except that logs: a rollback that raises is
\* logged and the restore goes on
RestoreRollbackLogged(c) ==
    /\ pc[c] = "r_rollback"
    /\ IF SnapshotExists(loc[c].backup.snapshot_name)
       THEN LET i == SnapIndex(loc[c].backup.snapshot_name)
            IN /\ snapshots' = SubSeq(snapshots, 1, i)
               /\ backup_dirs' = snapshots[i].content
               /\ Log(c, <<"zfs.snapshot.rollback">>)
       ELSE UNCHANGED <<snapshots, backup_dirs, calls>>
    /\ loc' = Zfs(SetProgress(loc, c, <<Pct(20)>>), c, RollbackCall(c))
    /\ Goto(c, "r_dataset_create")
    /\ UNCHANGED <<env, k8s_started, k8s, op, arg, ncalls, faults>>

\* lines 67-75: zfs.snapshot.rollback returns.  It raises when the snapshot is
\* gone; otherwise the dataset is back at the snapshot and every newer
\* snapshot is destroyed.
RestoreRollback(c) ==
    /\ pc[c] = "r_rollback"
    /\ IF SnapshotExists(loc[c].backup.snapshot_name)
       THEN LET i == SnapIndex(loc[c].backup.snapshot_name)
            IN /\ snapshots' = SubSeq(snapshots, 1, i)
               /\ backup_dirs' = snapshots[i].content
               /\ Log(c, <<"zfs.snapshot.rollback">>)
               /\ Goto(c, "r_dataset_create")
       ELSE /\ Finish(c, "Error")
            /\ UNCHANGED <<snapshots, backup_dirs, calls>>
    /\ loc' = Zfs(SetProgress(loc, c, <<Pct(20)>>), c, RollbackCall(c))
    /\ UNCHANGED <<env, k8s_started, k8s, op, arg, ncalls, faults>>

\* lines 77-83 with no dataset given its creation properties
CreateCallsNoProps(ds) ==
    << <<"zfs.dataset.create", ds.name, {}>> >>
    \o (IF ds.mount THEN << <<"zfs.dataset.mount", ds.name>> >> ELSE <<>>)

\* lines 77-83 for one dataset: zfs.dataset.create with the creation
\* properties it has, then zfs.dataset.mount when its 'mount' is set
CreateCalls1(ds) ==
    << <<"zfs.dataset.create", ds.name, ds.creation_props>> >>
    \o (IF ds.mount THEN << <<"zfs.dataset.mount", ds.name>> >> ELSE <<>>)

\* lines 76-83: zfs.dataset.create / mount of the excluded datasets
RestoreDatasetCreate(c) ==
    /\ pc[c] = "r_dataset_create"
    /\ Log(c, <<"zfs.dataset.create">>)
    /\ LET fresh_datasets == to_ignore_datasets_on_backup(ConfigDataset)
       IN loc' = Zfs(loc, c, CreateCalls1(fresh_datasets[1])
                                \o CreateCalls1(fresh_datasets[2]))
    /\ Goto(c, "r_clean_k3s")
    /\ UNCHANGED <<env, k8s_started, snapshots, backup_dirs, k8s, op, arg,
                   ncalls, faults>>

\* lines 89-97: the k3s state directories are removed, the cluster is new
RestoreCleanK3s(c) ==
    /\ pc[c] = "r_clean_k3s"
    /\ k8s' = [r \in Releases |-> [ns |-> FALSE, secrets |-> {}]]
    /\ Goto(c, "r_service_start")
    /\ UNCHANGED <<env, k8s_started, snapshots, backup_dirs, op, arg, loc, calls,
                   ncalls, faults>>

\* lines 99-100
RestoreServiceStart(c) ==
    /\ pc[c] = "r_service_start"
    /\ ServiceStart
    /\ Log(c, <<"service.start">>)
    /\ loc' = SetProgress(loc, c, <<Pct(25)>>)
    /\ Goto(c, "r_node_wait")
    /\ UNCHANGED <<pool_configured, passthrough_mode, config_json, releases_datasets, STATUS,
                   alerts, START_LOCK, taints, taint_call, frame,
                   snapshots, backup_dirs, k8s, op, arg, ncalls, faults>>

\* k8s.node.config: whether the node is configured, and its taints
NodeConfigs == {[node_configured |-> nc, taints |-> taints] : nc \in BOOLEAN}

\* the loop of lines 102-107 left after the first poll, whatever it returned
RestoreNodeWaitOnce(c) ==
    /\ pc[c] = "r_node_wait"
    /\ \E config \in NodeConfigs :
          loc' = [SetProgress(loc, c, <<Pct(30)>>) EXCEPT ![c].config = config]
    /\ Goto(c, "r_list_releases")
    /\ UNCHANGED <<env, k8s_started, snapshots, backup_dirs, k8s, op, arg,
                   calls, ncalls, faults>>

\* lines 102-109, one poll of `while True`: the loop is left when
\* k8s.node.config reports the node configured and without taints; any other
\* poll is followed by time.sleep(5) and the next poll
RestoreNodeWait(c) ==
    /\ pc[c] = "r_node_wait"
    /\ \E config \in NodeConfigs :
          IF config.node_configured /\ config.taints = <<>>
          THEN /\ loc' = [SetProgress(loc, c, <<Pct(30)>>) EXCEPT ![c].config = config]
               /\ Goto(c, "r_list_releases")
          ELSE /\ loc' = [loc EXCEPT ![c].config = config]
               /\ UNCHANGED <<pc, result>>
    /\ UNCHANGED <<env, k8s_started, snapshots, backup_dirs, k8s, op, arg,
                   calls, ncalls, faults>>

\* lines 111-120: os.listdir(backup_dir) raises when the directory is gone
RestoreListReleases(c) ==
    /\ pc[c] = "r_list_releases"
    /\ LET dir == backup_dirs[loc[c].backup.backup_path]
           releases == SelectSeq2(ReleaseOrder, ListDir(dir))
       IN IF ~dir.exists
          THEN Finish(c, "FileNotFoundError") /\ UNCHANGED loc
          ELSE /\ loc' = [loc EXCEPT ![c].releases = releases, ![c].index = 0]
               /\ Goto(c, IF releases = <<>> THEN "r_create_resources" ELSE "r_import")
    /\ UNCHANGED <<env, k8s_started, snapshots, backup_dirs, k8s, op, arg, calls,
                   ncalls, faults>>

\* sorted(os.listdir(secrets_dir)) with the body of each file
RECURSIVE SecretCalls(_, _, _)
SecretCalls(r, files, order) ==
    IF order = <<>> THEN <<>>
    ELSE IF \E f \in files : f[1] = Head(order)
         THEN <<<<"k8s.secret.create", r, Head(order)>>>> \o SecretCalls(r, files, Tail(order))
         ELSE SecretCalls(r, files, Tail(order))

SecretOrder == <<"helm.v1", "malformed">>

\* lines 122-163, one iteration
RestoreImport(c) ==
    /\ pc[c] = "r_import"
    /\ LET r == loc[c].releases[loc[c].index + 1]
           last == loc[c].index + 1 = Len(loc[c].releases)
           next == IF last THEN "r_create_resources" ELSE "r_import"
           entry == backup_dirs[loc[c].backup.backup_path].rel[r]
           skip == \/ r \notin releases_datasets
                   \/ entry.ns.state = "none"
                   \/ ~entry.secdir
                   \/ entry.secrets = {}
           badSecret == \E f \in entry.secrets : f[2] # "full"
           reported == SetProgress(loc, c, <<LoopPct(30, loc[c].index,
                                                    Len(loc[c].releases), 60)>>)
       IN IF skip
          THEN /\ loc' = [reported EXCEPT ![c].index = @ + 1]
               /\ Goto(c, next)
               /\ UNCHANGED <<k8s, calls, faults>>
          ELSE IF ~Loads(entry.ns)
          THEN /\ Finish(c, "TypeError")
               /\ loc' = reported
               /\ UNCHANGED <<k8s, calls, faults>>
          ELSE \/ \* k8s.namespace.create raises
                  /\ Raise(c)
                  /\ loc' = reported
                  /\ UNCHANGED <<k8s, calls>>
               \/ \* a secret cannot be loaded or k8s.secret.create raises
                  /\ IF badSecret THEN Finish(c, "TypeError") /\ UNCHANGED faults
                     ELSE Raise(c)
                  /\ k8s' = [k8s EXCEPT ![r].ns = TRUE]
                  /\ Log(c, <<"k8s.namespace.create", r>>)
                  /\ loc' = reported
               \/ \* namespace and secrets are created
                  /\ ~badSecret
                  /\ k8s' = [k8s EXCEPT ![r].ns = TRUE,
                                        ![r].secrets = {f[1] : f \in entry.secrets}]
                  /\ calls' = [calls EXCEPT ![c] =
                                 @ \o <<<<"k8s.namespace.create", r>>>>
                                   \o SecretCalls(r, entry.secrets, SecretOrder)]
                  /\ IF entry.counts.state = "full"
                     THEN /\ loc' = [reported EXCEPT
                                ![c].index = @ + 1,
                                ![c].restored = @ \cup
                                   {[name |-> r,
                                     replica_counts |-> JsonLoads(entry.counts.data)]}]
                          /\ Goto(c, next)
                     ELSE /\ Finish(c, IF entry.counts.state = "none"
                                       THEN "FileNotFoundError" ELSE "JSONDecodeError")
                          /\ loc' = reported
                  /\ UNCHANGED faults
    /\ UNCHANGED <<env, k8s_started, snapshots, backup_dirs, op, arg, ncalls>>

\* lines 168-256: the first iteration of the loop over restored_chart_releases
\* subscripts ['pv_info'], a key that nothing sets, and raises KeyError
RestoreCreateResources(c) ==
    /\ pc[c] = "r_create_resources"
    /\ IF loc[c].restored # {} THEN Finish(c, "KeyError")
       ELSE Goto(c, "r_scale")
    /\ loc' = SetProgress(loc, c, <<Pct(92)>>)
    /\ UNCHANGED <<env, k8s_started, snapshots, backup_dirs, k8s, op, arg,
                   calls, ncalls, faults>>

\* chart.release.scale_release_internal calls of lines 285-289
RECURSIVE ScaleCalls(_, _)
ScaleCalls(restored, order) ==
    IF order = <<>> THEN <<>>
    ELSE IF \E e \in restored : e.name = Head(order)
         THEN <<<<"chart.release.scale_release_internal", Head(order),
                  (CHOOSE e \in restored : e.name = Head(order)).replica_counts>>>>
              \o ScaleCalls(restored, Tail(order))
         ELSE ScaleCalls(restored, Tail(order))

\* lines 258-297 scaling every release found in the backup directory
RestoreScaleAll(c) ==
    /\ pc[c] = "r_scale"
    /\ LET present == {[name |-> loc[c].releases[i], replica_counts |-> <<>>] :
                          i \in 1..Len(loc[c].releases)}
       IN \/ /\ calls' = [calls EXCEPT ![c] = @ \o ScaleCalls(present, ReleaseOrder)]
             /\ loc' = SetProgress(loc, c, <<Pct(97), Pct(99), Pct(100)>>)
             /\ Finish(c, "ok")
             /\ UNCHANGED faults
          \/ /\ CanFail
             /\ faults' = faults + 1
             /\ Finish(c, "KeyError")
             /\ UNCHANGED <<calls, loc>>
    /\ UNCHANGED <<env, k8s_started, snapshots, backup_dirs, k8s, op, arg, ncalls>>

\* lines 258-297: wait for the redeploys, re-query the releases, redeploy the
\* releases with outdated certificates, scale, sync the catalogs
RestoreScale(c) ==
    /\ pc[c] = "r_scale"
    /\ LET present == {e \in loc[c].restored : k8s[e.name].ns}
       IN \/ /\ calls' = [calls EXCEPT ![c] = @ \o ScaleCalls(present, ReleaseOrder)]
             /\ loc' = SetProgress(loc, c, <<Pct(97), Pct(99), Pct(100)>>)
             /\ Finish(c, "ok")
             /\ UNCHANGED faults
          \/ \* a bulk redeploy status carries an error: chart_releases[index]
             \* subscripts a dict keyed by name with an int
             /\ CanFail
             /\ faults' = faults + 1
             /\ Finish(c, "KeyError")
             /\ UNCHANGED <<calls, loc>>
    /\ UNCHANGED <<env, k8s_started, snapshots, backup_dirs, k8s, op, arg, ncalls>>

\* ----------------------------------------------- the kubernetes service unit
SetFrame(c, f) == frame' = [frame EXCEPT ![c] = f]

ResultOf(e) == IF e.type = "CallError" THEN "CallError" ELSE "Error"

\* the lifecycle call of c ends: with res, its frame dropped
LifeFinish(c, res) ==
    /\ Finish(c, res)
    /\ SetFrame(c, NoFrame)

\* what no lifecycle step writes
fixed == <<store, taint_call, pool_configured, ncalls>>

\* where a caller of service.stop goes on once the service has stopped
AfterStop(method) ==
    CASE method = "restore" -> "r_prepare"
      [] method = "status_change" /\ pool_configured -> "sc_setup"
      [] OTHER -> "done"

\* service.stop('kubernetes'), first step: the status becomes STOPPING
ServiceStopBefore(c) ==
    /\ pc[c] = "stop_before"
    /\ SetStatus("STOPPING", NoExtra)
    /\ Log(c, <<"set_status", "STOPPING">>)
    /\ Goto(c, "stop_unit")
    /\ UNCHANGED <<fixed, k8s_started, alerts, START_LOCK, post_start_tasks, taints,
                   frame, op, faults>>

\* service.stop('kubernetes'), second step: the unit is stopped
ServiceStopUnit(c) ==
    /\ pc[c] = "stop_unit"
    /\ k8s_started' = FALSE
    /\ Log(c, <<"unit.stop">>)
    /\ Goto(c, "stop_after")
    /\ UNCHANGED <<fixed, STATUS, alerts, START_LOCK, post_start_tasks, taints,
                   frame, op, faults>>

\* service.stop('kubernetes'), last step: the status becomes STOPPED and the
\* call returns to its caller
ServiceStopAfter(c) ==
    /\ pc[c] = "stop_after"
    /\ SetStatus("STOPPED", NoExtra)
    /\ calls' = [calls EXCEPT ![c] = @ \o <<<<"set_status", "STOPPED">>, <<"service.stop">>>>]
    /\ IF AfterStop(op[c]) = "done" THEN Finish(c, "ok") ELSE Goto(c, AfterStop(op[c]))
    /\ UNCHANGED <<fixed, k8s_started, alerts, START_LOCK, post_start_tasks, taints,
                   frame, op, faults>>

\* ------------------------------------------------------------ error messages
LicenseMsg == <<"System", "is", "not", "licensed", "to", "use", "Applications">>
NodeMsg == <<"Unable", "to", "configure", "node:", "error">>
PodsMsg == <<"Kube-router", "routes", "not", "applied", "as", "timed", "out",
             "waiting", "for", "pods", "to", "execute">>
TaintsMsg(ts) ==
    <<"Timed", "out", "waiting", "for">> \o [i \in 1..Len(ts) |-> ts[i].key]
        \o <<"taints", "to", "be", "removed">>
PvMsg(e) == <<"Failed", "to", "configure", "PV/PVCs", "support:">> \o Str(e)
CouldNotValidate(e) == <<"Could", "not", "validate", "applications", "setup">> \o e.errmsg

\* the CallErrors of validate_k8s_fs_setup
PoolNotFound == CallError(<<"pool", "not", "found.">>, "ENOENT")
DatasetLocked == CallError(<<"Please", "unlock", "following", "dataset(s)">>,
                           "EDATASETISLOCKED")
MissingDatasets == CallError(<<"Missing", "dataset(s)", "required", "for", "starting",
                               "kubernetes.">>, "EFAULT")

\* lines 203-206
required_datasets ==
    SetOfStr(ConfigDataset) \cup {PathJoin(ConfigDataset, ds) : ds \in {<<"k3s">>, <<"releases">>}}

\* lines 220-227
locked_datasets(fs) ==
    {d.id : d \in {l \in fs.locked :
                     /\ l.mountpoint # <<>>
                     /\ \/ StartsWith(l.mountpoint, ConfigDataset \o <<"/">>)
                        \/ l.mountpoint \in {Mnt(ConfigDataset), Mnt(ConfigPool)}}}

\* lines 197-232: the exception validate_k8s_fs_setup raises over fs, NoExc if
\* it raises none
validate_k8s_fs_setup(fs) ==
    LET k8s_datasets == kubernetes_datasets(ConfigDataset)
        diff == (fs.existing \ k8s_datasets) \cup (k8s_datasets \ fs.existing)
        fatal_diff == diff \cap required_datasets
    IN IF ~fs.pool THEN PoolNotFound
       ELSE IF fatal_diff # {} THEN MissingDatasets
       ELSE IF locked_datasets(fs) # {} THEN DatasetLocked
       ELSE NoExc

\* the CallErrors of validate_k8s_fs_setup
FsSetupErrors == {validate_k8s_fs_setup(fs) : fs \in FsStates} \ {NoExc}

\* the caller is about to validate: fs is what validate_k8s_fs_setup will find
Finds(c, fs) == SetFrame(c, [frame[c] EXCEPT !.fs = fs])

\* validate_k8s_fs_setup has raised e: the handler at `label` runs
Invalid(c, e, label) ==
    /\ SetFrame(c, [frame[c] EXCEPT !.e = e, !.fs = FsFine])
    /\ Goto(c, label)

\* the exception e is raised inside a try block: the handler at `label` runs
Catch(c, e, label) ==
    /\ SetFrame(c, [frame[c] EXCEPT !.e = e])
    /\ Goto(c, label)

\* a collaborator call inside a try block raises
CatchFault(c, label) ==
    /\ CanFail
    /\ faults' = faults + 1
    /\ Catch(c, Boom, label)

\* ------------------------------------------------------------- start_service
\* line 378
StartServiceInit(c) ==
    /\ pc[c] = "ss_init"
    /\ SetStatus("INITIALIZING", NoExtra)
    /\ Goto(c, "ss_license")
    /\ UNCHANGED <<fixed, k8s_started, alerts, START_LOCK, post_start_tasks, taints,
                   frame, op, calls, faults>>

\* lines 380-381
StartServiceLicense(c) ==
    /\ pc[c] = "ss_license"
    /\ \/ /\ Goto(c, "ss_fs_check")
          /\ \E fs \in FsStates : Finds(c, fs)
          /\ UNCHANGED faults
       \/ Catch(c, CallError(LicenseMsg, "EFAULT"), "ss_fail") /\ UNCHANGED faults
       \/ CatchFault(c, "ss_fail")
    /\ UNCHANGED <<fixed, k8s_started, STATUS, alerts, START_LOCK, post_start_tasks,
                   taints, op, calls>>

\* before_start_check, lines 392-406
BeforeStartCheck(c) ==
    /\ pc[c] = "ss_fs_check"
    /\ \/ LET e == validate_k8s_fs_setup(frame[c].fs)
          IN IF e = NoExc
             THEN /\ OneshotDelete("ApplicationsConfigurationFailed")
                  /\ Goto(c, "ss_migrate")
                  /\ Finds(c, FsFine)
                  /\ UNCHANGED <<STATUS, faults>>
             ELSE /\ IF e.errno # "EDATASETISLOCKED"
                     THEN OneshotCreate("ApplicationsConfigurationFailed", e.errmsg)
                     ELSE UNCHANGED alerts
                  /\ SetStatus("FAILED", CouldNotValidate(e))
                  /\ Invalid(c, e, "ss_fail")
                  /\ UNCHANGED faults
       \/ \* validate_k8s_fs_setup raises something that is no CallError
          /\ CanFail
          /\ faults' = faults + 1
          /\ Invalid(c, Boom, "ss_fail")
          /\ UNCHANGED <<STATUS, alerts>>
    /\ UNCHANGED <<fixed, k8s_started, START_LOCK, post_start_tasks, taints, op, calls>>

\* lines 384-385: k8s.migration.scale_version_check and k8s.migration.run
StartServiceMigrate(c) ==
    /\ pc[c] = "ss_migrate"
    /\ \/ Goto(c, "ss_service_start") /\ UNCHANGED <<frame, faults>>
       \/ CatchFault(c, "ss_fail")
    /\ UNCHANGED <<fixed, k8s_started, STATUS, alerts, START_LOCK, post_start_tasks,
                   taints, op, calls>>

\* line 386
StartServiceStart(c) ==
    /\ pc[c] = "ss_service_start"
    /\ \/ /\ ServiceStart
          /\ LifeFinish(c, "ok")
          /\ UNCHANGED faults
       \/ /\ CatchFault(c, "ss_fail")
          /\ UNCHANGED <<k8s_started, post_start_tasks>>
    /\ UNCHANGED <<fixed, STATUS, alerts, START_LOCK, taints, op, calls>>

\* the handler without its set_status
StartServiceFailSilent(c) ==
    /\ pc[c] = "ss_fail"
    /\ LifeFinish(c, ResultOf(frame[c].e))
    /\ UNCHANGED <<fixed, k8s_started, STATUS, alerts, START_LOCK, post_start_tasks,
                   taints, op, calls, faults>>

\* lines 387-389
StartServiceFail(c) ==
    /\ pc[c] = "ss_fail"
    /\ SetStatus("FAILED", Str(frame[c].e))
    /\ LifeFinish(c, ResultOf(frame[c].e))
    /\ UNCHANGED <<fixed, k8s_started, alerts, START_LOCK, post_start_tasks, taints,
                   op, calls, faults>>

\* ----------------------------------------------------------------- status
\* lines 419-420
get_status_dict == <<STATUS.status, STATUS.description>>

\* status() answers with the description that belongs to the status
StatusCallPlain(c) ==
    /\ pc[c] = "st"
    /\ Log(c, <<"return", STATUS.status, Description(STATUS.status, NoExtra)>>)
    /\ Finish(c, "ok")
    /\ UNCHANGED <<fixed, k8s_started, STATUS, alerts, START_LOCK, post_start_tasks,
                   taints, frame, op, faults>>

\* lines 427-431: status() returns get_status_dict()
StatusCall(c) ==
    /\ pc[c] = "st"
    /\ Log(c, <<"return">> \o get_status_dict)
    /\ Finish(c, "ok")
    /\ UNCHANGED <<fixed, k8s_started, STATUS, alerts, START_LOCK, post_start_tasks,
                   taints, frame, op, faults>>

\* ----------------------------------------------------------------- events
\* initialize_k8s_status without its service.started test
InitializeK8sStatusNotStarted(c) ==
    /\ pc[c] = "ik"
    /\ \/ UNCHANGED STATUS
       \/ SetStatus(IF ~pool_configured THEN "UNCONFIGURED" ELSE "RUNNING", NoExtra)
    /\ LifeFinish(c, "ok")
    /\ UNCHANGED <<fixed, k8s_started, alerts, START_LOCK, post_start_tasks, taints,
                   op, calls, faults>>

\* lines 433-445; system.ready, the pool and service.started are read
InitializeK8sStatus(c) ==
    /\ pc[c] = "ik"
    /\ \/ UNCHANGED STATUS
       \/ SetStatus(IF ~pool_configured THEN "UNCONFIGURED"
                    ELSE IF k8s_started THEN "RUNNING" ELSE "FAILED", NoExtra)
    /\ LifeFinish(c, "ok")
    /\ UNCHANGED <<fixed, k8s_started, alerts, START_LOCK, post_start_tasks, taints,
                   op, calls, faults>>

\* lines 448-457: on a system licensed for failover nothing is done; otherwise
\* a start_service task is created, or the status becomes UNCONFIGURED
EventSystemReady(c) ==
    /\ pc[c] = "ev_ready"
    /\ \/ LifeFinish(c, "ok") /\ UNCHANGED <<STATUS, op>>
       \/ /\ pool_configured
          /\ Goto(c, "ss_init")
          /\ op' = [op EXCEPT ![c] = "start_service"]
          /\ UNCHANGED <<STATUS, frame>>
       \/ /\ ~pool_configured
          /\ SetStatus("UNCONFIGURED", NoExtra)
          /\ LifeFinish(c, "ok")
          /\ UNCHANGED op
    /\ UNCHANGED <<fixed, k8s_started, alerts, START_LOCK, post_start_tasks, taints,
                   calls, faults>>

\* the event handler stops the unit without service.stop
EventSystemShutdownUnitOnly(c) ==
    /\ pc[c] = "ev_shutdown"
    /\ IF k8s_started THEN Goto(c, "stop_unit") ELSE Finish(c, "ok")
    /\ UNCHANGED <<fixed, k8s_started, STATUS, alerts, START_LOCK, post_start_tasks,
                   taints, frame, op, calls, faults>>

\* lines 460-462: a service.stop task is created when the service is started
EventSystemShutdown(c) ==
    /\ pc[c] = "ev_shutdown"
    /\ IF k8s_started THEN Goto(c, "stop_before") ELSE Finish(c, "ok")
    /\ UNCHANGED <<fixed, k8s_started, STATUS, alerts, START_LOCK, post_start_tasks,
                   taints, frame, op, calls, faults>>

\* -------------------------------------------------------------- status_change
\* lines 246-251
StatusChangeConfig(c) ==
    /\ pc[c] = "sc_config"
    /\ IF k8s_started THEN Goto(c, "stop_before")
       ELSE IF pool_configured THEN Goto(c, "sc_setup")
       ELSE Finish(c, "ok")
    /\ UNCHANGED <<fixed, k8s_started, STATUS, alerts, START_LOCK, post_start_tasks,
                   taints, frame, op, calls, faults>>

\* lines 253-277: clean_start unless config.json can be read and agrees with
\* the configuration in the four keys; a clean start deletes the dataset with
\* all it holds, and kubernetes.setup_pool creates the datasets anew
StatusChangeSetup(c) ==
    /\ pc[c] = "sc_setup"
    /\ LET clean_start == config_json # "current"
       IN /\ SetFrame(c, [frame[c] EXCEPT !.clean_start = clean_start])
          /\ IF clean_start
             THEN /\ config_json' = "none"
                  /\ snapshots' = <<>>
                  /\ backup_dirs' = [n \in ValidNames |-> NoDir]
                  /\ releases_datasets' = {}
             ELSE UNCHANGED <<config_json, snapshots, backup_dirs, releases_datasets>>
    /\ Goto(c, "sc_init")
    /\ UNCHANGED <<passthrough_mode, k8s, arg, loc, taint_call, pool_configured, ncalls,
                   k8s_started, STATUS, alerts, START_LOCK, post_start_tasks,
                   taints, op, calls, faults>>

\* line 293
StatusChangeInit(c) ==
    /\ pc[c] = "sc_init"
    /\ SetStatus("INITIALIZING", NoExtra)
    /\ Goto(c, "sc_validate")
    /\ UNCHANGED <<fixed, k8s_started, alerts, START_LOCK, post_start_tasks, taints,
                   frame, op, calls, faults>>

\* lines 294-295: validate_k8s_fs_setup and k8s.migration.run
StatusChangeValidate(c) ==
    /\ pc[c] = "sc_validate"
    /\ \/ Goto(c, "sc_service_start") /\ UNCHANGED <<frame, faults>>
       \/ \E e \in FsSetupErrors : Catch(c, e, "sc_fail") /\ UNCHANGED faults
       \/ CatchFault(c, "sc_fail")
    /\ UNCHANGED <<fixed, k8s_started, STATUS, alerts, START_LOCK, post_start_tasks,
                   taints, op, calls>>

\* line 296
StatusChangeStart(c) ==
    /\ pc[c] = "sc_service_start"
    /\ \/ /\ ServiceStart
          /\ Goto(c, "sc_finish")
          /\ UNCHANGED <<frame, faults>>
       \/ /\ CatchFault(c, "sc_fail")
          /\ UNCHANGED <<k8s_started, post_start_tasks>>
    /\ UNCHANGED <<fixed, STATUS, alerts, START_LOCK, taints, op, calls>>

\* lines 280-283 writing config.json in the except branch too
StatusChangeFailWrites(c) ==
    /\ pc[c] = "sc_fail"
    /\ OneshotCreate("ApplicationsConfigurationFailed", Str(frame[c].e))
    /\ SetStatus("FAILED", Str(frame[c].e))
    /\ LifeFinish(c, ResultOf(frame[c].e))
    /\ config_json' = "current"
    /\ UNCHANGED <<passthrough_mode, snapshots, backup_dirs, releases_datasets, k8s,
                   arg, loc, taint_call, pool_configured, ncalls,
                   k8s_started, START_LOCK, post_start_tasks, taints, op,
                   calls, faults>>

\* lines 280-283
StatusChangeFail(c) ==
    /\ pc[c] = "sc_fail"
    /\ OneshotCreate("ApplicationsConfigurationFailed", Str(frame[c].e))
    /\ SetStatus("FAILED", Str(frame[c].e))
    /\ LifeFinish(c, ResultOf(frame[c].e))
    /\ UNCHANGED <<fixed, k8s_started, START_LOCK, post_start_tasks, taints, op,
                   calls, faults>>

\* lines 284-289: json.dumps(config) is written to config.json
StatusChangeFinish(c) ==
    /\ pc[c] = "sc_finish"
    /\ config_json' = "current"
    /\ OneshotDelete("ApplicationsConfigurationFailed")
    /\ LifeFinish(c, "ok")
    /\ UNCHANGED <<passthrough_mode, snapshots, backup_dirs, releases_datasets, k8s,
                   arg, loc, taint_call, pool_configured, ncalls,
                   k8s_started, STATUS, START_LOCK, post_start_tasks, taints,
                   op, calls, faults>>

\* ----------------------------------------------------------------- post_start
NodeTimeout == 60
NodeSleep == 2
TaintTimeout == 600
SleepTime == 5
PodRunningTimeout == 600

\* the loop tests its budget after one sleep too many
WaitLoopLate(timeout, sleep_time, first, n) ==
    LET loop[s \in Int \X Nat] ==
            IF s[1] >= 0 /\ first # s[2] + 1
            THEN loop[<<s[1] - sleep_time, s[2] + 1>>]
            ELSE [broke |-> s[1] >= 0, slept |-> s[2] * sleep_time]
    IN loop[<<timeout, n>>]

\* the loop goes on polling after a poll has succeeded
WaitLoopNoBreak(timeout, sleep_time, first, n) ==
    LET loop[s \in Int \X Nat] ==
            IF s[1] > 0
            THEN loop[<<s[1] - sleep_time, s[2] + 1>>]
            ELSE [broke |-> first \in 1..s[2], slept |-> s[2] * sleep_time]
    IN loop[<<timeout, n>>]

\* while timeout > 0: poll, break when the poll succeeds, else sleep
\* sleep_time and take it off timeout.  `first` is the first poll that
\* succeeds (0: none does) and n the number of polls made so far; loop[s]
\* is the loop entered with s[1] seconds left after s[2] polls that failed.
WaitLoop(timeout, sleep_time, first, n) ==
    LET loop[s \in Int \X Nat] ==
            IF s[1] > 0 /\ first # s[2] + 1
            THEN loop[<<s[1] - sleep_time, s[2] + 1>>]
            ELSE [broke |-> s[1] > 0, slept |-> s[2] * sleep_time]
    IN loop[<<timeout, n>>]

\* the polls that may be the first to succeed: none, the first one, the last
\* one within the budget and the one after it
FirstPolls(timeout, sleep_time) ==
    {0, 1, timeout \div sleep_time, timeout \div sleep_time + 1}

\* the exception e is raised after `slept` seconds of waiting
CatchSlept(c, e, slept) ==
    /\ SetFrame(c, [frame[c] EXCEPT !.e = e, !.slept = slept])
    /\ Goto(c, "ps_fail")

\* service.start has created the task and it starts to run
TaskStart(c) ==
    /\ pc[c] = "idle"
    /\ post_start_tasks > 0
    /\ post_start_tasks' = post_start_tasks - 1
    /\ op' = [op EXCEPT ![c] = "post_start"]
    /\ Goto(c, "ps_lock")
    /\ UNCHANGED <<fixed, k8s_started, STATUS, alerts, START_LOCK, taints, frame,
                   calls, faults>>

\* post_start without START_LOCK
PostStartLockFree(c) ==
    /\ pc[c] = "ps_lock"
    /\ Goto(c, "ps_node")
    /\ UNCHANGED <<fixed, k8s_started, STATUS, alerts, START_LOCK, post_start_tasks,
                   taints, frame, op, calls, faults>>

\* lines 28-29: the lock is taken, or the caller waits for it
PostStartLock(c) ==
    /\ pc[c] = "ps_lock"
    /\ IF START_LOCK = NULL
       THEN /\ START_LOCK' = c
            /\ Goto(c, "ps_node")
            /\ UNCHANGED frame
       ELSE /\ SetFrame(c, [frame[c] EXCEPT !.blocked = TRUE])
            /\ Goto(c, "ps_blocked")
            /\ UNCHANGED START_LOCK
    /\ UNCHANGED <<fixed, k8s_started, STATUS, alerts, post_start_tasks, taints, op,
                   calls, faults>>

\* line 29: the lock is released and the waiting caller takes it
PostStartUnblock(c) ==
    /\ pc[c] = "ps_blocked"
    /\ START_LOCK = NULL
    /\ START_LOCK' = c
    /\ Goto(c, "ps_node")
    /\ UNCHANGED <<fixed, k8s_started, STATUS, alerts, post_start_tasks, taints,
                   frame, op, calls, faults>>

\* lines 35-45: the wait for the node, 60 seconds in sleeps of 2
PostStartNode(c) ==
    /\ pc[c] = "ps_node"
    /\ \/ \E first \in FirstPolls(NodeTimeout, NodeSleep) :
             LET w == WaitLoop(NodeTimeout, NodeSleep, first, 0)
             IN /\ IF w.broke THEN Goto(c, "ps_add_taint") /\ UNCHANGED frame
                   ELSE CatchSlept(c, CallError(NodeMsg, "EFAULT"), w.slept)
                /\ UNCHANGED faults
       \/ CatchFault(c, "ps_fail")
    /\ UNCHANGED <<fixed, k8s_started, STATUS, alerts, START_LOCK, post_start_tasks,
                   taints, op, calls>>

\* post_start_internal without line 129
PostStartAddTaintSkipped(c) ==
    /\ pc[c] = "ps_add_taint"
    /\ \/ Goto(c, "ps_setup") /\ UNCHANGED <<frame, faults>>
       \/ CatchFault(c, "ps_fail")
    /\ UNCHANGED <<fixed, k8s_started, STATUS, alerts, START_LOCK, post_start_tasks,
                   taints, op, calls>>

\* line 129: k8s.node.add_taints
PostStartAddTaint(c) ==
    /\ pc[c] = "ps_add_taint"
    /\ LET r == AddTaint(taints, SvcStartTaint)
       IN \/ /\ r.update => ApiAccepts(r.taints)
             /\ taints' = r.taints
             /\ Goto(c, "ps_setup")
             /\ UNCHANGED <<frame, faults>>
          \/ /\ CatchFault(c, "ps_fail")
             /\ UNCHANGED taints
    /\ UNCHANGED <<fixed, k8s_started, STATUS, alerts, START_LOCK, post_start_tasks,
                   op, calls>>

\* lines 130-131: k8s.cni.setup_cni and k8s.gpu.setup
PostStartSetup(c) ==
    /\ pc[c] = "ps_setup"
    /\ \/ Goto(c, "ps_pv") /\ UNCHANGED <<frame, faults>>
       \/ CatchFault(c, "ps_fail")
    /\ UNCHANGED <<fixed, k8s_started, STATUS, alerts, START_LOCK, post_start_tasks,
                   taints, op, calls>>

\* lines 132-137: an exception is raised again as a CallError
PostStartPv(c) ==
    /\ pc[c] = "ps_pv"
    /\ \/ Goto(c, "ps_migrate") /\ UNCHANGED <<frame, faults>>
       \/ /\ CanFail
          /\ faults' = faults + 1
          /\ Catch(c, CallError(PvMsg(Boom), "EFAULT"), "ps_fail")
    /\ UNCHANGED <<fixed, k8s_started, STATUS, alerts, START_LOCK, post_start_tasks,
                   taints, op, calls>>

\* lines 141-144
PostStartMigrate(c) ==
    /\ pc[c] = "ps_migrate"
    /\ \/ Goto(c, "ps_remove_taints") /\ UNCHANGED <<frame, faults>>
       \/ CatchFault(c, "ps_fail")
    /\ UNCHANGED <<fixed, k8s_started, STATUS, alerts, START_LOCK, post_start_tasks,
                   taints, op, calls>>

\* [k['key'] for k in taints if k['key'] in ('ix-svc-start', 'ix-svc-stop')]
RECURSIVE SvcKeys(_)
SvcKeys(ts) ==
    IF ts = <<>> THEN <<>>
    ELSE IF Head(ts).key \in {"ix-svc-start", "ix-svc-stop"}
         THEN <<Head(ts).key>> \o SvcKeys(Tail(ts))
         ELSE SvcKeys(Tail(ts))

\* k8s.node.remove_taints: remove_taint for each key in turn
RECURSIVE RemoveTaints(_, _)
RemoveTaints(ts, keys) ==
    IF keys = <<>> THEN NodeUpdate("ok", FALSE, ts)
    ELSE LET r == RemoveTaint(ts, Head(keys))
         IN IF r.result # "ok" THEN r ELSE RemoveTaints(r.taints, Tail(keys))

\* lines 146-152
PostStartRemoveTaints(c) ==
    /\ pc[c] = "ps_remove_taints"
    /\ LET r == RemoveTaints(taints, SvcKeys(taints))
       IN \/ /\ taints' = r.taints
             /\ IF r.result = "ok" THEN Goto(c, "ps_taint_wait") /\ UNCHANGED frame
                ELSE Catch(c, Exception(<<"Unable", "to", "find", "taint">>), "ps_fail")
             /\ UNCHANGED faults
          \/ /\ CatchFault(c, "ps_fail")
             /\ UNCHANGED taints
    /\ UNCHANGED <<fixed, k8s_started, STATUS, alerts, START_LOCK, post_start_tasks,
                   op, calls>>

\* lines 156-169: the taints left are removed by the cluster itself, or stay
PostStartTaintWait(c) ==
    /\ pc[c] = "ps_taint_wait"
    /\ \/ \E first \in IF taints = <<>> THEN {1}
                       ELSE FirstPolls(TaintTimeout, SleepTime) \ {1} :
             LET w == WaitLoop(TaintTimeout, SleepTime, first, 0)
             IN /\ IF w.broke
                   THEN /\ taints' = <<>>
                        /\ Goto(c, "ps_pod_wait")
                        /\ UNCHANGED frame
                   ELSE /\ CatchSlept(c, CallError(TaintsMsg(taints), "EFAULT"), w.slept)
                        /\ UNCHANGED taints
                /\ UNCHANGED faults
       \/ /\ CatchFault(c, "ps_fail")
          /\ UNCHANGED taints
    /\ UNCHANGED <<fixed, k8s_started, STATUS, alerts, START_LOCK, post_start_tasks,
                   op, calls>>

\* lines 171-179
PostStartPodWait(c) ==
    /\ pc[c] = "ps_pod_wait"
    /\ \/ \E first \in FirstPolls(PodRunningTimeout, SleepTime) :
             LET w == WaitLoop(PodRunningTimeout, SleepTime, first, 0)
             IN /\ IF w.broke THEN Goto(c, "ps_routes") /\ UNCHANGED frame
                   ELSE CatchSlept(c, CallError(PodsMsg, "EFAULT"), w.slept)
                /\ UNCHANGED faults
       \/ CatchFault(c, "ps_fail")
    /\ UNCHANGED <<fixed, k8s_started, STATUS, alerts, START_LOCK, post_start_tasks,
                   taints, op, calls>>

\* line 183
PostStartRoutes(c) ==
    /\ pc[c] = "ps_routes"
    /\ \/ Goto(c, "ps_iptables") /\ UNCHANGED <<frame, faults>>
       \/ CatchFault(c, "ps_fail")
    /\ UNCHANGED <<fixed, k8s_started, STATUS, alerts, START_LOCK, post_start_tasks,
                   taints, op, calls>>

\* line 47: add_iptables_rules; a rule that cannot be added is logged
PostStartIptables(c) ==
    /\ pc[c] = "ps_iptables"
    /\ \/ Goto(c, "ps_events") /\ UNCHANGED <<frame, faults>>
       \/ CatchFault(c, "ps_fail")
    /\ UNCHANGED <<fixed, k8s_started, STATUS, alerts, START_LOCK, post_start_tasks,
                   taints, op, calls>>

\* lines 53-54, outside the try block
PostStartEvents(c) ==
    /\ pc[c] = "ps_events"
    /\ \/ Goto(c, "ps_running") /\ UNCHANGED <<frame, faults, START_LOCK>>
       \/ /\ CanFail
          /\ faults' = faults + 1
          /\ START_LOCK' = NULL
          /\ LifeFinish(c, "Error")
    /\ UNCHANGED <<fixed, k8s_started, STATUS, alerts, post_start_tasks, taints, op,
                   calls>>

\* lines 55-57 without alert.oneshot_delete
PostStartRunningKeepAlert(c) ==
    /\ pc[c] = "ps_running"
    /\ SetStatus("RUNNING", NoExtra)
    /\ START_LOCK' = NULL
    /\ LifeFinish(c, "ok")
    /\ UNCHANGED <<fixed, k8s_started, alerts, post_start_tasks, taints, op, calls, faults>>

\* lines 55-57
PostStartRunning(c) ==
    /\ pc[c] = "ps_running"
    /\ OneshotDelete("ApplicationsStartFailed")
    /\ SetStatus("RUNNING", NoExtra)
    /\ START_LOCK' = NULL
    /\ LifeFinish(c, "ok")
    /\ UNCHANGED <<fixed, k8s_started, post_start_tasks, taints, op, calls, faults>>

\* line 49
PostStartFail(c) ==
    /\ pc[c] = "ps_fail"
    /\ SetStatus("FAILED", Str(frame[c].e))
    /\ Goto(c, "ps_alert")
    /\ UNCHANGED <<fixed, k8s_started, alerts, START_LOCK, post_start_tasks, taints,
                   frame, op, calls, faults>>

\* lines 50-51 outside `async with START_LOCK`: the lock stays with the caller
PostStartAlertLocked(c) ==
    /\ pc[c] = "ps_alert"
    /\ OneshotCreate("ApplicationsStartFailed", Str(frame[c].e))
    /\ LifeFinish(c, ResultOf(frame[c].e))
    /\ UNCHANGED <<fixed, k8s_started, STATUS, START_LOCK, post_start_tasks, taints,
                   op, calls, faults>>

\* lines 50-51
PostStartAlert(c) ==
    /\ pc[c] = "ps_alert"
    /\ OneshotCreate("ApplicationsStartFailed", Str(frame[c].e))
    /\ START_LOCK' = NULL
    /\ LifeFinish(c, ResultOf(frame[c].e))
    /\ UNCHANGED <<fixed, k8s_started, STATUS, post_start_tasks, taints, op, calls,
                   faults>>

\* ------------------------------------------------------------- collaborators
RaisingCalls ==
    {"b_snapshot_query", "b_list_backups", "b_release_query", "b_snapshot",
     "d_validate", "d_snapshot_delete",
     "r_validate", "r_service_stop", "r_prepare", "r_sync_abort", "r_dataset_delete",
     "r_rollback", "r_dataset_create", "r_clean_k3s", "r_service_start",
     "r_node_wait", "r_list_releases", "r_create_resources",
     "stop_unit", "sc_config", "sc_setup", "sc_finish", "ev_ready", "ev_shutdown",
     "ik"}

\* The call a caller is in raises and the handler lets the exception through.
CollaboratorRaises(c) ==
    /\ pc[c] \in RaisingCalls
    /\ Raise(c)
    /\ loc' = SetProgress(loc, c, ProgressAtEntry(pc[c]))
    /\ UNCHANGED <<env, k8s_started, snapshots, backup_dirs, k8s, op, arg, calls, ncalls>>

\* a method call with its argument
CallsOf(c) ==
    \/ \E name \in UserNames \cup InvalidNames \cup {NULL} : Invoke(c, "backup", name)
    \/ \E name \in ArgNames : Invoke(c, "restore", name)
    \/ \E name \in ArgNames : Invoke(c, "delete", name)

\* a step of a call in flight
StepOf(c) ==
        \/ JobStart(c)
        \/ Return(c)
        \/ BackupValidate(c)
        \/ BackupSnapshotQuery(c)
        \/ BackupListBackups(c)
        \/ BackupMakedirs(c)
        \/ BackupReleaseQuery(c)
        \/ BackupExport(c)
        \/ BackupSnapshot(c)
        \/ DeleteValidate(c)
        \/ DeleteSnapshotDelete(c)
        \/ DeleteRmtree(c)
        \/ RestoreValidate(c)
        \/ RestoreServiceStop(c)
        \/ ServiceStopBefore(c)
        \/ ServiceStopUnit(c)
        \/ ServiceStopAfter(c)
        \/ RestorePrepare(c)
        \/ RestoreSyncAbort(c)
        \/ RestoreSyncWait(c)
        \/ RestoreDatasetDelete(c)
        \/ RestoreRollback(c)
        \/ RestoreDatasetCreate(c)
        \/ RestoreCleanK3s(c)
        \/ RestoreServiceStart(c)
        \/ RestoreNodeWait(c)
        \/ RestoreListReleases(c)
        \/ RestoreImport(c)
        \/ RestoreCreateResources(c)
        \/ RestoreScale(c)
        \/ CollaboratorRaises(c)

Next == \E c \in Callers : CallsOf(c) \/ StepOf(c)

Spec == Init /\ [][Next]_vars

\* Calls made one after the other: a method is invoked only when no other
\* call is in flight.
NoCallInFlight == \A c \in Callers : pc[c] = "idle"

SeqNext == \E c \in Callers : (NoCallInFlight /\ CallsOf(c)) \/ StepOf(c)

SeqSpec == Init /\ [][SeqNext]_vars

\* ------------------------------------------------------- taint calls on the node
\* no backup exists and no call is in flight
Quiet ==
    /\ passthrough_mode = FALSE
    /\ snapshots = <<>>
    /\ backup_dirs = [n \in ValidNames |-> NoDir]
    /\ releases_datasets = Releases
    /\ k8s = [r \in Releases |-> [ns |-> TRUE, secrets |-> SecretNames]]
    /\ pc = [c \in Callers |-> "idle"]
    /\ op = [c \in Callers |-> "none"]
    /\ arg = [c \in Callers |-> NULL]
    /\ loc = [c \in Callers |-> NoLocals]
    /\ result = [c \in Callers |-> "none"]
    /\ calls = [c \in Callers |-> <<>>]
    /\ frame = [c \in Callers |-> NoFrame]
    /\ ncalls = 0
    /\ faults = 0
    /\ START_LOCK = NULL
    /\ post_start_tasks = 0
    /\ alerts = {}
    /\ taint_call = NoTaintCall

\* ------------------------------------------------------ lifecycle operations
FirstLabel(method) ==
    CASE method = "initialize_k8s_status" -> "ik"
      [] method = "system_ready" -> "ev_ready"
      [] method = "system_shutdown" -> "ev_shutdown"
      [] method = "status" -> "st"
      [] OTHER -> "sc_config"

\* setup() runs initialize_k8s_status, an event arrives or status_change is called
LifeInvoke(c, method) ==
    /\ pc[c] = "idle"
    /\ ncalls < MaxLifeCalls
    /\ ncalls' = ncalls + 1
    /\ op' = [op EXCEPT ![c] = method]
    /\ Goto(c, FirstLabel(method))
    /\ UNCHANGED <<store, taint_call, pool_configured, k8s_started, STATUS, alerts,
                   START_LOCK, post_start_tasks, taints, frame, calls, faults>>

LifeInit ==
    /\ config_json = "current"
    /\ Quiet
    /\ pool_configured \in BOOLEAN
    /\ k8s_started \in BOOLEAN
    /\ STATUS = APPS_STATUS("PENDING", Description("PENDING", NoExtra))
    /\ taints \in {<<>>, <<NotReadyTaint>>}

LifeCallsOf(c) ==
    \/ LifeInvoke(c, "initialize_k8s_status")
    \/ LifeInvoke(c, "system_ready")
    \/ LifeInvoke(c, "system_shutdown")
    \/ LifeInvoke(c, "status_change")
    \/ LifeInvoke(c, "status")

LifeStepOf(c) ==
    \/ Return(c)
    \/ StatusCall(c)
    \/ TaskStart(c)
    \/ ServiceStopBefore(c)
    \/ ServiceStopUnit(c)
    \/ ServiceStopAfter(c)
    \/ InitializeK8sStatus(c)
    \/ EventSystemReady(c)
    \/ EventSystemShutdown(c)
    \/ StartServiceInit(c)
    \/ StartServiceLicense(c)
    \/ BeforeStartCheck(c)
    \/ StartServiceMigrate(c)
    \/ StartServiceStart(c)
    \/ StartServiceFail(c)
    \/ StatusChangeConfig(c)
    \/ StatusChangeSetup(c)
    \/ StatusChangeInit(c)
    \/ StatusChangeValidate(c)
    \/ StatusChangeStart(c)
    \/ StatusChangeFail(c)
    \/ StatusChangeFinish(c)
    \/ PostStartLock(c)
    \/ PostStartUnblock(c)
    \/ PostStartNode(c)
    \/ PostStartAddTaint(c)
    \/ PostStartSetup(c)
    \/ PostStartPv(c)
    \/ PostStartMigrate(c)
    \/ PostStartRemoveTaints(c)
    \/ PostStartTaintWait(c)
    \/ PostStartPodWait(c)
    \/ PostStartRoutes(c)
    \/ PostStartIptables(c)
    \/ PostStartEvents(c)
    \/ PostStartRunning(c)
    \/ PostStartFail(c)
    \/ PostStartAlert(c)
    \/ CollaboratorRaises(c)

LifeNext == \E c \in Callers : LifeCallsOf(c) \/ LifeStepOf(c)

LifeSpec == LifeInit /\ [][LifeNext]_vars

\* ---------------------------------------------------- the post_start tasks
\* service.start has been called MaxTasks times: the tasks wait to be run
StartInit ==
    /\ config_json = "current"
    /\ passthrough_mode = FALSE
    /\ snapshots = <<>>
    /\ backup_dirs = [n \in ValidNames |-> NoDir]
    /\ releases_datasets = Releases
    /\ k8s = [r \in Releases |-> [ns |-> TRUE, secrets |-> SecretNames]]
    /\ pc = [c \in Callers |-> "idle"]
    /\ op = [c \in Callers |-> "none"]
    /\ arg = [c \in Callers |-> NULL]
    /\ loc = [c \in Callers |-> NoLocals]
    /\ result = [c \in Callers |-> "none"]
    /\ calls = [c \in Callers |-> <<>>]
    /\ frame = [c \in Callers |-> NoFrame]
    /\ ncalls = 0
    /\ faults = 0
    /\ START_LOCK = NULL
    /\ post_start_tasks = MaxTasks
    /\ alerts \in {{}, {[klass |-> "ApplicationsStartFailed", error |-> Str(Boom)]}}
    /\ taint_call = NoTaintCall
    /\ pool_configured = TRUE
    /\ k8s_started = TRUE
    /\ STATUS = APPS_STATUS("INITIALIZING", Description("INITIALIZING", NoExtra))
    /\ taints \in {<<>>, <<NotReadyTaint>>}

StartStepOf(c) ==
    \/ Return(c)
    \/ TaskStart(c)
    \/ PostStartLock(c)
    \/ PostStartUnblock(c)
    \/ PostStartNode(c)
    \/ PostStartAddTaint(c)
    \/ PostStartSetup(c)
    \/ PostStartPv(c)
    \/ PostStartMigrate(c)
    \/ PostStartRemoveTaints(c)
    \/ PostStartTaintWait(c)
    \/ PostStartPodWait(c)
    \/ PostStartRoutes(c)
    \/ PostStartIptables(c)
    \/ PostStartEvents(c)
    \/ PostStartRunning(c)
    \/ PostStartFail(c)
    \/ PostStartAlert(c)

StartNext == \E c \in Callers : StartStepOf(c)

\* the event loop runs every task that can take a step; asyncio.Lock wakes
\* its waiters in the order they came, so a waiter is not passed over for ever
StartFairness ==
    \A c \in Callers : WF_vars(StartStepOf(c)) /\ SF_vars(PostStartUnblock(c))

StartSpec == StartInit /\ [][StartNext]_vars /\ StartFairness

InitTaints ==
    {ts \in {<<>>} \cup {<<t>> : t \in Taints} \cup (Taints \X Taints) : ApiAccepts(ts)}

notTaints == <<pool_configured, k8s_started, pc, op, result, calls, ncalls, faults,
               STATUS, alerts, START_LOCK, post_start_tasks, frame, store>>

TaintInit ==
    /\ config_json = "current"
    /\ Quiet
    /\ pool_configured = TRUE
    /\ k8s_started = TRUE
    /\ STATUS = APPS_STATUS("RUNNING", Description("RUNNING", NoExtra))
    /\ taints \in InitTaints

\* Node.add_taint(taint_dict): get_instance, the loop, cls.update
NodeAddTaint(taint_dict) ==
    LET r == AddTaint(taints, taint_dict)
    IN /\ Len(r.taints) <= MaxTaints
       /\ \/ /\ r.update => ApiAccepts(r.taints)
             /\ taints' = r.taints
             /\ taint_call' = TaintCall("add_taint", taint_dict, r.result,
                                        IF r.update THEN "sent" ELSE "none")
          \/ \* cls.update raises
             /\ r.update
             /\ taints' = taints
             /\ taint_call' = TaintCall("add_taint", taint_dict, "ApiException", "failed")
          \/ \* get_instance raises
             /\ r.result # "AssertionError"
             /\ taints' = taints
             /\ taint_call' = TaintCall("add_taint", taint_dict, "ApiException", "none")
       /\ UNCHANGED notTaints

\* Node.remove_taint(taint_key): get_instance, the index scan, cls.update
NodeRemoveTaint(taint_key) ==
    LET r == RemoveTaint(taints, taint_key)
    IN /\ \/ /\ r.update => ApiAccepts(r.taints)
             /\ taints' = r.taints
             /\ taint_call' = TaintCall("remove_taint", taint_key, r.result,
                                        IF r.update THEN "sent" ELSE "none")
          \/ \* cls.update raises
             /\ r.update
             /\ taints' = taints
             /\ taint_call' = TaintCall("remove_taint", taint_key, "ApiException", "failed")
       /\ UNCHANGED notTaints

TaintNext ==
    \/ \E taint_dict \in TaintDicts : NodeAddTaint(taint_dict)
    \/ \E taint_key \in TaintKeys \cup {"ix-svc-stop"} : NodeRemoveTaint(taint_key)

TaintSpec == TaintInit /\ [][TaintNext]_vars

\* ------------------------------------------------------------------ claims
IsJob(c) == op[c] \in {"backup", "restore"}

\* the caller is inside a call that changes the applications dataset tree
Mutating(c) ==
    pc[c] \in {"b_snapshot", "r_dataset_delete", "r_rollback", "r_dataset_create",
               "d_snapshot_delete"}

\* C1: at most one backup_chart_releases body and at most one restore_backup
\* body is executing; a second call of the same job does not start its body
\* while one is running, so two backups never take their snapshot concurrently.
C1_OneBodyPerJob ==
    \A c1, c2 \in Callers :
        (c1 # c2 /\ Running(c1) /\ Running(c2) /\ IsJob(c1)) => op[c1] # op[c2]

C1_Witness ==
    \E c1, c2 \in Callers :
        /\ op[c1] = "backup" /\ pc[c1] = "b_export"
        /\ op[c2] = "backup" /\ pc[c2] = "wait"

\* C2: no two mutations of the applications dataset tree (snapshot creation of
\* a backup, dataset delete / rollback / dataset create of a restore, snapshot
\* delete of delete_backup) are in progress at the same time.
C2_NoOverlappingMutations ==
    \A c1, c2 \in Callers : (c1 # c2 /\ Mutating(c1)) => ~Mutating(c2)

\* C3: whenever restore_backup stops the service, deletes the excluded
\* datasets or rolls back, the snapshot of the backup it restores exists.
C3_RestoreSnapshotExists ==
    \A c \in Callers :
        pc[c] \in {"r_service_stop", "r_dataset_delete", "r_rollback"}
            => SnapshotExists(loc[c].backup.snapshot_name)

Catalog == <<snapshots, backup_dirs>>

\* the caller takes a step of its handler in which no collaborator fails
Steps(c) == pc'[c] # pc[c] /\ faults' = faults

\* the call of the caller ends in this step
Ends(c) == pc[c] # "done" /\ pc'[c] = "done"

DuplicateErrors == {"CallError:EEXIST", "FileExistsError:EEXIST"}

\* C4: backup_chart_releases(name) fails with an EEXIST error when the
\* snapshot of name or the backup directory of name exists at the check that
\* looks for it, and the failing call leaves snapshots and directories as
\* they were.
C4_DuplicateRejected ==
    [][\A c \in Callers :
         /\ (/\ pc[c] = "b_snapshot_query"
             /\ SnapshotExists(SnapId(loc[c].name))
             /\ Steps(c))
              => (result'[c] = "CallError:EEXIST" /\ pc'[c] = "done"
                  /\ Catalog' = Catalog)
         /\ (/\ pc[c] = "b_list_backups"
             /\ loc[c].name \in ListBackups
             /\ Steps(c))
              => (result'[c] = "CallError:EEXIST" /\ pc'[c] = "done"
                  /\ Catalog' = Catalog)
         /\ (/\ pc[c] = "b_makedirs"
             /\ backup_dirs[loc[c].name].exists
             /\ Steps(c))
              => (result'[c] = "FileExistsError:EEXIST" /\ pc'[c] = "done"
                  /\ Catalog' = Catalog)
         /\ (op[c] = "backup" /\ Ends(c) /\ result'[c] \in DuplicateErrors)
              => Catalog' = Catalog
      ]_vars

C4_Witness ==
    \E c \in Callers :
        /\ op[c] = "backup" /\ pc[c] = "done"
        /\ result[c] = "CallError:EEXIST"
        /\ loc[c].name \in ListBackups

\* C5: when backup_chart_releases ends after it has created its directory,
\* either both the directory and the snapshot of the name exist or neither.
C5_AtomicCreation ==
    [][\A c \in Callers :
         (op[c] = "backup" /\ Ends(c) /\ loc[c].backup_dir # NULL)
            => (backup_dirs'[loc[c].backup_dir].exists
                    <=> (SnapId(loc[c].name) \in SnapIds'))
      ]_vars

Importable(name) ==
    {r \in ListDir(backup_dirs[name]) \cap releases_datasets :
        backup_dirs[name].rel[r].secrets # {}}

\* C7: restore_backup of a backup completes, and for every release it imports
\* the scale call receives the replica counts written at backup time.
C7_RoundTrip ==
    [][\A c \in Callers :
         (op[c] = "restore" /\ Ends(c) /\ faults' = 0 /\ loc[c].backup # NoBackup)
            => /\ result'[c] = "ok"
               /\ \A r \in Importable(loc[c].backup.backup_path) :
                    \E i \in 1..Len(calls'[c]) :
                        calls'[c][i] = <<"chart.release.scale_release_internal", r,
                                         ReplicaCounts(r)>>
      ]_vars

CreateCalls == {"k8s.namespace.create", "k8s.secret.create", "k8s.zv.create",
                "k8s.pv.create", "k8s.cluster.apply_yaml_file",
                "chart.release.redeploy_internal"}

\* C9: in restore_backup every call that creates a Kubernetes object comes
\* after zfs.snapshot.rollback has returned, and the service is stopped
\* before the rollback starts.
C9_RollbackBeforeCreate ==
    \A c \in Callers :
        /\ \A i \in 1..Len(calls[c]) :
             calls[c][i][1] \in CreateCalls
                => \E j \in 1..(i - 1) : calls[c][j] = <<"zfs.snapshot.rollback">>
        /\ \A j \in 1..Len(calls[c]) :
             calls[c][j] = <<"zfs.snapshot.rollback">>
                => \E k \in 1..(j - 1) : calls[c][k] = <<"service.stop">>
        /\ pc[c] = "r_rollback" => ~k8s_started

C9_Witness ==
    \E c \in Callers : \E i \in 1..Len(calls[c]) :
        calls[c][i][1] = "k8s.secret.create"

\* C10: the recursive snapshot of a backup is taken only after every release
\* has been exported, and a backup whose export raised takes no snapshot.
C10_ExportBeforeSnapshot ==
    [][\A c \in Callers :
         /\ (op[c] = "backup" /\ pc'[c] = "b_snapshot")
              => loc'[c].index = Len(loc'[c].chart_releases)
         /\ (op[c] = "backup" /\ snapshots' # snapshots /\ pc'[c] # pc[c])
              => /\ pc[c] = "b_snapshot"
                 /\ loc[c].index = Len(loc[c].chart_releases)
         /\ (pc[c] = "b_export" /\ pc'[c] = "done") => snapshots' = snapshots
      ]_vars

C10_Witness ==
    \E c \in Callers :
        /\ op[c] = "backup" /\ pc[c] = "done" /\ result[c] = "ok"
        /\ Len(loc[c].chart_releases) = 2
        /\ loc[c].index = 2

\* entries of ts equal to taint_dict in key, effect and value
Count(ts, taint_dict) == Cardinality({i \in 1..Len(ts) : SameTaint(ts[i], taint_dict)})

\* ts without the taints whose key is taint_key, the others in their order
RECURSIVE Without(_, _)
Without(ts, taint_key) ==
    IF ts = <<>> THEN <<>>
    ELSE IF Head(ts).key = taint_key THEN Without(Tail(ts), taint_key)
    ELSE <<Head(ts)>> \o Without(Tail(ts), taint_key)

\* C17: add_taint is idempotent.  After an add_taint that returns, the node
\* has exactly one taint with the key, effect and value of the call, and a
\* call for a taint that is already present sends no node update and leaves
\* the taint list as it was.
C17_AddTaintIdempotent ==
    [][taint_call'.op = "add_taint" =>
          /\ taint_call'.result = "ok" => Count(taints', taint_call'.arg) = 1
          /\ Count(taints, taint_call'.arg) >= 1 =>
                (taints' = taints /\ taint_call'.update = "none")]_vars

C17_Witness ==
    /\ taint_call.op = "add_taint"
    /\ taint_call.result = "ok"
    /\ taint_call.update = "none"
    /\ Count(taints, taint_call.arg) = 1
    /\ Len(taints) > 1

\* C18: remove_taint(key) raises the not-found error, sends no update and
\* leaves the taints unchanged when no taint has the key; otherwise a call
\* that returns has removed every taint with that key and kept the others in
\* their order.
C18_RemoveTaint ==
    [][taint_call'.op = "remove_taint" =>
          IF \A i \in 1..Len(taints) : taints[i].key # taint_call'.arg
          THEN /\ taint_call'.result = "ApiException"
               /\ taint_call'.update = "none"
               /\ taints' = taints
          ELSE /\ taint_call'.update # "none"
               /\ taint_call'.result = "ok" =>
                    taints' = Without(taints, taint_call'.arg)]_vars

C18_Witness ==
    /\ taint_call.op = "remove_taint"
    /\ taint_call.result = "ApiException"
    /\ taint_call.update = "none"
    /\ Len(taints) = 2
    /\ \A i \in 1..Len(taints) : taints[i].key # taint_call.arg

DistinctKeys(ts) == \A i, j \in 1..Len(ts) : i # j => ts[i].key # ts[j].key

DistinctTaints(ts) == \A i, j \in 1..Len(ts) : i # j => ~SameTaint(ts[i], ts[j])

\* C19 as claimed: taints are unique by key.  From a taint list with distinct
\* keys, no add_taint or remove_taint call leads to two taints with one key.
C19_UniqueByKey == [][DistinctKeys(taints) => DistinctKeys(taints')]_vars

\* C19 amended: taints are unique by key, effect and value.  From a taint
\* list without two entries equal in key, effect and value, no add_taint or
\* remove_taint call leads to two such entries, and add_taint sends a node
\* update only for a taint that is not present yet; two taints may share a key.
C19_UniqueByKeyEffectValue ==
    [][/\ DistinctTaints(taints) => DistinctTaints(taints')
       /\ (taint_call'.op = "add_taint" /\ taint_call'.update # "none") =>
             Count(taints, taint_call'.arg) = 0]_vars

C19_Witness ==
    /\ taint_call.op = "add_taint"
    /\ taint_call.update = "sent"
    /\ ~DistinctKeys(taints)
    /\ DistinctTaints(taints)

\* ---- every operation that stops the service
\* the backup operations together with the system-shutdown event and
\* status_change
StopCallsOf(c) ==
    \/ \E name \in UserNames :
          \/ Invoke(c, "backup", name)
          \/ Invoke(c, "restore", name)
          \/ Invoke(c, "delete", name)
    \/ LifeInvoke(c, "system_shutdown")
    \/ LifeInvoke(c, "status_change")

StopStepOf(c) ==
    \/ StepOf(c)
    \/ EventSystemShutdown(c)
    \/ StatusChangeConfig(c)
    \/ StatusChangeSetup(c)
    \/ StatusChangeInit(c)
    \/ StatusChangeValidate(c)
    \/ StatusChangeStart(c)
    \/ StatusChangeFail(c)
    \/ StatusChangeFinish(c)

StopNext == \E c \in Callers : StopCallsOf(c) \/ StopStepOf(c)

\* every release has its secrets in the cluster, the devices are not passed
\* through
StopInit ==
    /\ Init
    /\ ~passthrough_mode
    /\ k8s = [r \in Releases |-> [ns |-> TRUE, secrets |-> SecretNames]]

StopSpec == StopInit /\ [][StopNext]_vars

\* ---- post_start and START_LOCK
\* the stages of post_start_impl
ImplStages ==
    {"ps_node", "ps_add_taint", "ps_setup", "ps_pv", "ps_migrate", "ps_remove_taints",
     "ps_taint_wait", "ps_pod_wait", "ps_routes", "ps_iptables", "ps_events",
     "ps_running", "ps_fail", "ps_alert"}

InImpl(c) == pc[c] \in ImplStages

\* C11 as stated: concurrent post_start calls collapse into one execution: a
\* caller that found another post_start in flight, and blocked, never
\* executes post_start_impl itself.
C11_Collapse == \A c \in Callers : frame[c].blocked => ~InImpl(c)

\* C11, amended: concurrent post_start calls are serialised, not collapsed.
\* No two callers execute post_start_impl together; a caller that finds a
\* post_start in flight blocks, does not go on before START_LOCK is free, and
\* then executes post_start_impl itself from its first stage.
C11_Serialised ==
    [][/\ \A c, d \in Callers : (InImpl(c) /\ InImpl(d))' => c = d
       /\ \A c \in Callers :
             /\ (pc[c] = "ps_lock" /\ START_LOCK # NULL) => pc'[c] \in {"ps_lock", "ps_blocked"}
             /\ (pc[c] = "ps_blocked" /\ pc'[c] # "ps_blocked") =>
                   /\ START_LOCK = NULL
                   /\ \A d \in Callers : ~InImpl(d)
                   /\ pc'[c] = "ps_node"
                   /\ START_LOCK' = c]_vars

\* a caller that had to wait for the lock executes post_start_impl after the
\* run it waited for
C11_Witness ==
    \E c \in Callers :
        /\ frame[c].blocked
        /\ pc[c] = "ps_pod_wait"
        /\ START_LOCK = c
        /\ \E d \in Callers : d # c /\ pc[d] = "done" /\ op[d] = "post_start"

\* ---- failures of the cluster start
\* seq ends with suffix
EndsWith(seq, suffix) ==
    /\ Len(seq) >= Len(suffix)
    /\ SubSeq(seq, Len(seq) - Len(suffix) + 1, Len(seq)) = suffix

\* the status is FAILED and its description carries the message of e
FailedWith(status, e) ==
    /\ status.status = "FAILED"
    /\ e.errmsg # <<>>
    /\ EndsWith(status.description, Str(e))

Transitions ==
    {<<"PENDING", "INITIALIZING">>, <<"UNCONFIGURED", "INITIALIZING">>,
     <<"INITIALIZING", "RUNNING">>, <<"RUNNING", "STOPPING">>,
     <<"STOPPING", "STOPPED">>} \cup {<<s, "FAILED">> : s \in Status}

\* C13 as stated: every change of the status is a transition of the relation
\* Pending/Unconfigured -> Initializing -> {Running | Failed},
\* Running -> Stopping -> Stopped, any state -> Failed.
C13_TransitionRelation ==
    [][STATUS'.status # STATUS.status =>
          <<STATUS.status, STATUS'.status>> \in Transitions]_vars

\* the step of caller c that may enter new_status
Enters(c, new_status) ==
    CASE new_status = "INITIALIZING" -> pc[c] \in {"ss_init", "sc_init"}
      [] new_status = "RUNNING" ->
            \/ pc[c] = "ps_running"
            \/ pc[c] = "ik" /\ pool_configured /\ k8s_started
      [] new_status = "STOPPING" -> pc[c] = "stop_before"
      [] new_status = "STOPPED" -> pc[c] = "stop_after"
      [] new_status = "UNCONFIGURED" -> pc[c] \in {"ik", "ev_ready"} /\ ~pool_configured
      [] new_status = "FAILED" ->
            \/ pc[c] \in {"ss_fs_check", "ss_fail", "sc_fail", "ps_fail"}
            \/ pc[c] = "ik" /\ pool_configured /\ ~k8s_started
      [] OTHER -> FALSE

\* C13, amended: the status a change enters is decided by the operation that
\* makes the change, whatever the status it leaves.  INITIALIZING is entered
\* only by the first step of start_service or status_change_internal,
\* RUNNING only by the last step of post_start_impl or by
\* initialize_k8s_status when the pool is configured and the service is
\* started, STOPPING and STOPPED only by stop, UNCONFIGURED only by
\* initialize_k8s_status or the system-ready event when no pool is
\* configured, FAILED only by a failure handler or by initialize_k8s_status
\* when the pool is configured and the service is not started; PENDING is
\* never entered.
C13_StatusByOperation ==
    [][STATUS'.status # STATUS.status =>
          \E c \in Callers : pc'[c] # pc[c] /\ Enters(c, STATUS'.status)]_vars

\* initialize_k8s_status alone has taken the status from PENDING to RUNNING
C13_Witness ==
    \E c \in Callers :
        /\ op[c] = "initialize_k8s_status"
        /\ pc[c] = "done"
        /\ ncalls = 1
        /\ post_start_tasks = 0
        /\ \A d \in Callers : d # c => pc[d] = "idle"
        /\ STATUS.status = "RUNNING"

\* ---- stopping the cluster
StopLog == <<<<"set_status", "STOPPING">>, <<"unit.stop">>, <<"set_status", "STOPPED">>,
             <<"service.stop">>>>

\* C14: stopping the cluster sets the status to STOPPING, then stops the
\* kubernetes unit, then sets the status to STOPPED, on every path that stops
\* the service: the system-shutdown event, status_change and restore_backup.
\* The unit is stopped by no other step.
C14_StopOrder ==
    [][\A c \in Callers : pc'[c] # pc[c] =>
          /\ (k8s_started /\ ~k8s_started') => pc[c] = "stop_unit"
          /\ pc'[c] = "stop_before" =>
                \/ pc[c] = "r_service_stop"
                \/ pc[c] \in {"ev_shutdown", "sc_config"} /\ k8s_started
          /\ ((pc[c] = "r_service_stop" \/ (pc[c] \in {"ev_shutdown", "sc_config"} /\ k8s_started))
                /\ result'[c] # "Error") => pc'[c] = "stop_before"
          /\ pc[c] = "stop_before" => (STATUS'.status = "STOPPING" /\ pc'[c] = "stop_unit")
          /\ pc'[c] = "stop_unit" => pc[c] = "stop_before"
          /\ (pc[c] = "stop_unit" /\ result'[c] # "Error") =>
                (~k8s_started' /\ pc'[c] = "stop_after")
          /\ pc'[c] = "stop_after" => pc[c] = "stop_unit"
          /\ pc[c] = "stop_after" =>
                /\ STATUS'.status = "STOPPED"
                /\ EndsWith(calls'[c], StopLog)]_vars

\* the shutdown event has stopped the service and restore_backup has stopped
\* it again
C14_Witness ==
    \E c, d \in Callers :
        /\ op[c] = "restore" /\ pc[c] = "r_prepare"
        /\ EndsWith(calls[c], StopLog)
        /\ op[d] = "system_shutdown" /\ pc[d] = "done" /\ result[d] = "ok"
        /\ EndsWith(calls[d], StopLog)
        /\ STATUS.status = "STOPPED"
        /\ ~k8s_started

\* ---- failures of restore_backup
\* the call of c has gone past its validation and has stopped the service
PastValidation(c) == \E i \in 1..Len(calls[c]) : calls[c][i] = <<"service.stop">>

\* C15: a restore_backup that fails at a step after its validation leaves the
\* status FAILED with the error text and an alert raised.
C15_RestoreFailureFails ==
    \A c \in Callers :
        (op[c] = "restore" /\ pc[c] = "done" /\ result[c] # "ok" /\ PastValidation(c)) =>
            /\ STATUS.status = "FAILED"
            /\ Len(STATUS.description) > 1
            /\ alerts # {}

\* ---- the wait for the pods
Words(msg) == {msg[i] : i \in 1..Len(msg)}

\* C16: when no pod reaches the Running phase, the pod loop of post_start
\* gives up after 600 seconds of 5-second sleeps and raises an error whose
\* message mentions pods; the run sets the status to FAILED with that
\* message, never sets it to RUNNING and ends with the error.
C16_PodTimeout ==
    [][\A c \in Callers :
          /\ (pc[c] = "ps_pod_wait" /\ pc'[c] = "ps_fail"
                /\ frame'[c].e.type = "CallError") =>
                /\ frame'[c].slept = 600
                /\ frame'[c].slept = 120 * SleepTime
                /\ "pods" \in Words(frame'[c].e.errmsg)
          /\ (pc[c] \in {"ps_fail", "ps_alert"} /\ pc'[c] # pc[c]
                /\ frame[c].e.errmsg = PodsMsg) =>
                /\ (STATUS' = STATUS \/ STATUS'.status # "RUNNING")
                /\ pc[c] = "ps_fail" => (FailedWith(STATUS', frame[c].e) /\ pc'[c] = "ps_alert")
                /\ pc[c] = "ps_alert" =>
                      (STATUS' = STATUS /\ pc'[c] = "done" /\ result'[c] = "CallError")]_vars

\* the pod loop has timed out and the status is FAILED with its message
C16_Witness ==
    \E c \in Callers :
        /\ pc[c] = "ps_alert"
        /\ frame[c].slept = 600
        /\ frame[c].e = CallError(PodsMsg, "EFAULT")
        /\ FailedWith(STATUS, frame[c].e)

\* ---- restore of a backup with an empty secrets directory
\* the releases of a backup directory whose secrets directory is empty
EmptySecrets(name) ==
    {r \in ListDir(backup_dirs[name]) \cap releases_datasets :
        backup_dirs[name].rel[r].secdir /\ backup_dirs[name].rel[r].secrets = {}}

\* C20: restore_backup of a backup in which a release has an empty secrets
\* directory makes no call for that release and completes: every other
\* release of the backup is imported and scaled and the job ends without
\* raising.
C20_EmptySecretsSkipped ==
    [][\A c \in Callers :
         (/\ op[c] = "restore" /\ Ends(c) /\ faults' = 0 /\ loc[c].backup # NoBackup
          /\ EmptySecrets(loc[c].backup.backup_path) # {})
            => /\ result'[c] = "ok"
               /\ \A r \in EmptySecrets(loc[c].backup.backup_path) :
                    \A i \in 1..Len(calls'[c]) :
                        Len(calls'[c][i]) < 2 \/ calls'[c][i][2] # r
               /\ \A r \in Importable(loc[c].backup.backup_path) :
                    \E i \in 1..Len(calls'[c]) :
                        calls'[c][i] = <<"chart.release.scale_release_internal", r,
                                         ReplicaCounts(r)>>
      ]_vars

\* the stages of restore_backup from the import loop on (restore.py:122-289)
PerReleaseStages == {"r_import", "r_create_resources", "r_scale"}

\* C21: from the import loop on, a failure that concerns one release does not
\* abort restore_backup: a restore that has reached the import loop never
\* ends with an error.
C21_PerReleaseFailureLogged ==
    [][\A c \in Callers :
         (op[c] = "restore" /\ pc[c] \in PerReleaseStages /\ Ends(c))
            => result'[c] = "ok"
      ]_vars

\* the stages of restore_backup before the import loop (restore.py:32-109)
SetupStages ==
    {"r_validate", "r_service_stop", "stop_before", "stop_unit", "stop_after",
     "r_prepare", "r_sync_abort", "r_sync_wait", "r_dataset_delete", "r_rollback",
     "r_dataset_create", "r_clean_k3s", "r_service_start", "r_node_wait"}

\* the calls restore_backup makes from the import loop on
LaterCalls ==
    {"k8s.namespace.create", "k8s.secret.create",
     "chart.release.scale_release_internal"}

\* the step c takes raises in a setup stage: a collaborator raises, the backup
\* is not listed, or the snapshot to roll back to is gone
SetupRaises(c) ==
    \/ faults' = faults + 1
    \/ pc[c] = "r_validate" /\ arg[c] \notin ListBackups
    \/ pc[c] = "r_rollback" /\ ~SnapshotExists(loc[c].backup.snapshot_name)

\* C22: an exception in a stage of restore_backup before the import loop ends
\* the job with an error, and the job has made none of the later calls: no
\* namespace, no secret, no scaling, and the cluster objects are as they were.
C22_SetupFailureAborts ==
    [][\A c \in Callers :
         (/\ op[c] = "restore" /\ pc[c] \in SetupStages /\ pc'[c] # pc[c]
          /\ SetupRaises(c))
            => /\ pc'[c] = "done"
               /\ result'[c] # "ok"
               /\ k8s' = k8s
               /\ \A i \in 1..Len(calls'[c]) : calls'[c][i][1] \notin LaterCalls
      ]_vars

\* a restore_backup that raised at the rollback: the datasets were deleted,
\* nothing was rolled back, the job ended with an error
C22_Witness ==
    \E c \in Callers :
        /\ op[c] = "restore" /\ pc[c] = "done" /\ result[c] = "Error"
        /\ \E i \in 1..Len(calls[c]) : calls[c][i] = <<"zfs.dataset.delete">>
        /\ \A i \in 1..Len(calls[c]) :
               calls[c][i][1] \notin LaterCalls \cup {"zfs.snapshot.rollback"}

\* ---- one post_start_impl at a time
\* C28: at most one caller executes post_start_impl at any time; START_LOCK
\* is held by exactly the caller that executes it and is free again at the
\* step that ends the run, whether the run succeeds or raises; a post_start
\* that asks for the lock gets to execute post_start_impl.
C28_OneStartAtATime ==
    /\ [](\A c, d \in Callers : (InImpl(c) /\ InImpl(d)) => c = d)
    /\ [](\A c \in Callers : InImpl(c) <=> START_LOCK = c)
    /\ [][\A c \in Callers :
            (InImpl(c) /\ ~InImpl(c)') => (pc'[c] = "done" /\ START_LOCK' = NULL)]_vars
    /\ \A c \in Callers : (pc[c] \in {"ps_lock", "ps_blocked"}) ~> InImpl(c)

\* a caller that had to wait executes post_start_impl after a run that raised
C28_Witness ==
    \E c, d \in Callers :
        /\ frame[c].blocked /\ InImpl(c) /\ START_LOCK = c
        /\ op[d] = "post_start" /\ pc[d] = "done" /\ result[d] # "ok"

\* ---- the three waits of post_start
StartStages == {"ps_lock", "ps_blocked"} \cup ImplStages

\* the loop over a budget of `timeout` seconds in sleeps of `sleep_time` makes
\* at most `polls` polls and leaves at the first poll that succeeds
BoundedLoop(timeout, sleep_time, polls) ==
    \A first \in FirstPolls(timeout, sleep_time) :
        LET w == WaitLoop(timeout, sleep_time, first, 0)
        IN /\ w.broke <=> first \in 1..polls
           /\ w.broke => w.slept = (first - 1) * sleep_time
           /\ ~w.broke => w.slept = polls * sleep_time

\* C27: the wait for the node makes at most 30 polls (60 s in sleeps of 2 s)
\* and then fails with 'Unable to configure node', the wait for the taints
\* makes at most 120 polls (600 s, 5 s) and then fails with a message that
\* lists the keys of the taints still on the node, the wait for the pods
\* makes at most 120 polls; each wait ends at the first poll that succeeds,
\* and every post_start comes to an end.
C27_BoundedWaits ==
    /\ [](/\ BoundedLoop(NodeTimeout, NodeSleep, 30)
          /\ BoundedLoop(TaintTimeout, SleepTime, 120)
          /\ BoundedLoop(PodRunningTimeout, SleepTime, 120))
    /\ [][\A c \in Callers :
            (pc'[c] = "ps_fail" /\ faults' = faults) =>
               /\ pc[c] = "ps_node" =>
                     /\ frame'[c].slept = 30 * NodeSleep
                     /\ SubSeq(frame'[c].e.errmsg, 1, 4)
                           = <<"Unable", "to", "configure", "node:">>
               /\ pc[c] = "ps_taint_wait" =>
                     /\ frame'[c].slept = 120 * SleepTime
                     /\ taints # <<>>
                     /\ \A i \in 1..Len(taints) : taints[i].key \in Words(frame'[c].e.errmsg)
                     /\ "Timed" \in Words(frame'[c].e.errmsg)
               /\ pc[c] = "ps_pod_wait" => frame'[c].slept = 120 * SleepTime]_vars
    /\ \A c \in Callers : (pc[c] \in StartStages) ~> (pc[c] = "done")

\* the wait for the taints has given up after 600 seconds: the not-ready
\* taint is still on the node and the error names it
C27_Witness ==
    \E c \in Callers :
        /\ pc[c] = "ps_fail"
        /\ frame[c].slept = TaintTimeout
        /\ taints # <<>>
        /\ frame[c].e.errmsg = TaintsMsg(taints)

\* ---- the order of the start sequence
\* the stages of start_service and of post_start_impl in the order of the code
StartServiceOrder == <<"ss_init", "ss_license", "ss_fs_check", "ss_migrate",
                       "ss_service_start">>
PostStartOrder ==
    <<"ps_node", "ps_add_taint", "ps_setup", "ps_pv", "ps_migrate",
      "ps_remove_taints", "ps_taint_wait", "ps_pod_wait", "ps_routes",
      "ps_iptables", "ps_events", "ps_running">>

\* a stage of order other than the first is entered from the stage before it
InOrder(order, c) ==
    \A i \in 2..Len(order) :
        (pc'[c] = order[i] /\ pc[c] # order[i]) => pc[c] = order[i - 1]

HasTaint(ts, key) == \E i \in 1..Len(ts) : ts[i].key = key

\* C30: start_service sets INITIALIZING before the licence and the datasets
\* are validated; post_start_impl goes through its stages in the order of the
\* code: the ix-svc-start taint is on the node when the CNI, storage-class
\* and migration stages are entered, the ix-svc-* taints are taken off only
\* by the stage that follows the migrations, the wait for the pods starts
\* with no taint on the node, and post_start sets RUNNING only in the stage
\* that follows both waits.
C30_StartOrder ==
    [][\A c \in Callers :
          /\ InOrder(StartServiceOrder, c)
          /\ InOrder(PostStartOrder, c)
          /\ (pc[c] = "ss_init" /\ pc'[c] = "ss_license") => STATUS'.status = "INITIALIZING"
          /\ (pc[c] = "ps_add_taint" /\ pc'[c] = "ps_setup") => HasTaint(taints', "ix-svc-start")
          /\ pc[c] \in {"ps_setup", "ps_pv", "ps_migrate"} => HasTaint(taints', "ix-svc-start")
          /\ (HasTaint(taints, "ix-svc-start") /\ ~HasTaint(taints', "ix-svc-start"))
                => \E d \in Callers : pc[d] = "ps_remove_taints" /\ pc'[d] # pc[d]
          /\ (pc[c] = "ps_taint_wait" /\ pc'[c] = "ps_pod_wait") => taints' = <<>>
          /\ (op[c] = "post_start" /\ pc'[c] # pc[c] /\ STATUS' # STATUS
              /\ STATUS'.status = "RUNNING") => pc[c] = "ps_running"
      ]_vars

\* the migrations run with the ix-svc-start taint on the node and the status
\* still INITIALIZING
C30_Witness ==
    \E c \in Callers :
        /\ pc[c] = "ps_migrate"
        /\ HasTaint(taints, "ix-svc-start")
        /\ STATUS.status = "INITIALIZING"

\* ---- status()
Last(seq) == seq[Len(seq)]

\* C26: status() can always be answered: it waits for no lock, also while a
\* post_start holds START_LOCK; it returns the status and the description
\* that the last set_status stored, also after a failure, and it leaves the
\* status and the lock as they are.
C26_StatusReflectsLastSet ==
    /\ [](\A c \in Callers : pc[c] = "st" => ENABLED StatusCall(c))
    /\ [][\A c \in Callers :
            (pc[c] = "st" /\ pc'[c] # "st") =>
               /\ pc'[c] = "done" /\ result'[c] = "ok"
               /\ Last(calls'[c]) = <<"return", STATUS.status, STATUS.description>>
               /\ STATUS' = STATUS
               /\ START_LOCK' = START_LOCK
               /\ alerts' = alerts]_vars

\* status() has answered FAILED with the error of the start while the
\* failing post_start still holds START_LOCK
C26_Witness ==
    \E c, d \in Callers :
        /\ op[c] = "status" /\ pc[c] = "done"
        /\ START_LOCK = d /\ pc[d] = "ps_alert"
        /\ calls[c] = <<<<"return", "FAILED", Description("FAILED", Str(frame[d].e))>>>>

\* ---- the datasets cluster start needs
\* the applications dataset, its k3s child or its releases child is missing
RequiredMissing(fs) ==
    \E ds \in {ConfigDataset, PathJoin(ConfigDataset, <<"k3s">>),
               PathJoin(ConfigDataset, <<"releases">>)} : ds \notin fs.existing

\* a dataset of the applications tree is locked
TreeLocked(fs) ==
    \E l \in fs.locked :
        l.id = ConfigDataset \/ StartsWith(l.id, ConfigDataset \o <<"/">>)

\* C29: start_service fails in before_start_check, before service.start is
\* called, when the applications dataset, its k3s child or its releases child
\* does not exist or when a dataset of the applications tree is locked, and
\* in the locked case the error has errno EDATASETISLOCKED.
C29_StartNeedsDatasets ==
    [][\A c \in Callers :
         (pc[c] = "ss_fs_check" /\ pc'[c] # pc[c] /\ frame[c].fs.pool) =>
            /\ (RequiredMissing(frame[c].fs) \/ TreeLocked(frame[c].fs))
                  => pc'[c] = "ss_fail"
            /\ (TreeLocked(frame[c].fs) /\ ~RequiredMissing(frame[c].fs)
                /\ faults' = faults)
                  => frame'[c].e.errno = "EDATASETISLOCKED"
      ]_vars

\* ------------------------------------------------------------------ C25
\* a <= b for percentages a and b
Leq(a, b) == a.num * b.den <= b.num * a.den

\* C25: the percentages a backup_chart_releases or restore_backup job reports
\* never decrease and lie within 0..100, 100 is reported exactly by the jobs
\* that complete successfully, a backup's per-release percentages lie within
\* 10..90, and no percentage is computed as a fraction of zero releases.
C25_Progress ==
    \A c \in Callers :
        LET p == loc[c].progress
        IN /\ \A i \in 1..Len(p) :
                 /\ p[i].den > 0
                 /\ Leq(Pct(0), p[i]) /\ Leq(p[i], Pct(100))
                 /\ (op[c] = "backup" /\ p[i].release) =>
                        Leq(Pct(10), p[i]) /\ Leq(p[i], Pct(90))
           /\ \A i \in 1..(Len(p) - 1) : Leq(p[i], p[i + 1])
           /\ (\E i \in 1..Len(p) : Leq(Pct(100), p[i])) =>
                 ((pc[c] = "done" /\ result[c] = "ok") /\ p[Len(p)] = Pct(100))
           /\ (op[c] \in {"backup", "restore"} /\ (pc[c] = "done" /\ result[c] = "ok")) =>
                 (p # <<>> /\ p[Len(p)] = Pct(100))

\* a backup of two releases has completed and has reported a percentage for
\* each of them
C25_Witness ==
    \E c \in Callers :
        /\ op[c] = "backup" /\ pc[c] = "done" /\ result[c] = "ok"
        /\ Len(loc[c].chart_releases) = 2
        /\ \E i, j \in 1..Len(loc[c].progress) :
              /\ i < j
              /\ loc[c].progress[i].release /\ loc[c].progress[j].release
              /\ ~Leq(loc[c].progress[j], loc[c].progress[i])

\* a backup of no release has completed
C25_ZeroReleases ==
    \E c \in Callers :
        /\ op[c] = "backup" /\ pc[c] = "done" /\ result[c] = "ok"
        /\ loc[c].progress = <<Pct(10), Pct(95), Pct(100)>>

\* a restore has completed
C25_RestoreDone ==
    \E c \in Callers :
        /\ op[c] = "restore" /\ pc[c] = "done" /\ result[c] = "ok"
        /\ Len(loc[c].progress) >= 10

\* ------------------------------------------------- post_system_update_hook
\* f'{UPDATE_BACKUP_PREFIX}-{datetime.utcnow().strftime("%F_%T")}' at the
\* clock reading t
UpdateName(t) == UPDATE_BACKUP_PREFIX \o "-" \o ToString(t)

\* the clock readings of the updates
UpdateTimes == 1..(MaxUpdateBackups + 1)
UpdateNames == {UpdateName(t) : t \in UpdateTimes}

\* the backup directories and snapshots of the first k updates and, before
\* them, of the backup "x" a user made
HookDirs(k) ==
    [n \in ValidNames \cup UpdateNames |->
        IF n = "x" \/ \E t \in 1..k : n = UpdateName(t) THEN EmptyDir ELSE NoDir]

HookSnapshots(k) ==
    [i \in 1..(k + 1) |->
        [id |-> SnapId(IF i = 1 THEN "x" ELSE UpdateName(i - 1)),
         content |-> HookDirs(i - 1)]]

\* the system has been updated k times
HookInit ==
    /\ config_json = "current"
    /\ pool_configured \in BOOLEAN
    /\ passthrough_mode = FALSE
    /\ k8s_started \in BOOLEAN
    /\ \E k \in 0..MaxUpdateBackups :
         /\ snapshots = HookSnapshots(k)
         /\ backup_dirs = HookDirs(k)
    /\ releases_datasets = Releases
    /\ k8s \in [Releases -> [ns : {TRUE}, secrets : SecretChoices]]
    /\ pc = [c \in Callers |-> "idle"]
    /\ op = [c \in Callers |-> "none"]
    /\ arg = [c \in Callers |-> NULL]
    /\ loc = [c \in Callers |-> NoLocals]
    /\ result = [c \in Callers |-> "none"]
    /\ calls = [c \in Callers |-> <<>>]
    /\ ncalls = 0
    /\ faults = 0
    /\ STATUS = APPS_STATUS("RUNNING", Description("RUNNING", NoExtra))
    /\ alerts = {}
    /\ START_LOCK = NULL
    /\ post_start_tasks = 0
    /\ taints = <<>>
    /\ taint_call = NoTaintCall
    /\ frame = [c \in Callers |-> NoFrame]

\* datetime.utcnow(): the clock does not run backwards, and its reading may
\* still be the one of the latest update backup
Now ==
    {t \in UpdateTimes :
        \A u \in UpdateTimes : SnapshotExists(SnapId(UpdateName(u))) => u <= t}

\* the slot in which the calls of the hook of c run
Callee(c) == CHOOSE d \in Callers : d # c

\* backups.sort(key=lambda d: d['created_on'])
SortByCreatedOn(backups) ==
    CHOOSE s \in [1..Cardinality(backups) -> backups] :
        \A i, j \in 1..Cardinality(backups) : i < j => s[i].created_on < s[j].created_on

\* the update.post_update hook is called, once after an update
HookInvoke(c) ==
    /\ \A d \in Callers : pc[d] = "idle"
    /\ ncalls = 0
    /\ op' = [op EXCEPT ![c] = "hook"]
    /\ pc' = [pc EXCEPT ![c] = "h_config"]
    /\ UNCHANGED <<env, k8s_started, snapshots, backup_dirs, k8s, arg, loc, result,
                   calls, ncalls, faults>>

\* lines 169-171: nothing to back up without an applications dataset
HookConfig(c) ==
    /\ pc[c] = "h_config"
    /\ IF ~pool_configured THEN Finish(c, "ok") ELSE Goto(c, "h_list")
    /\ UNCHANGED <<env, k8s_started, snapshots, backup_dirs, k8s, op, arg, loc,
                   calls, ncalls, faults>>

\* lines 173-178: the backups of earlier updates, the oldest first
HookList(c) ==
    /\ pc[c] = "h_list"
    /\ loc' = [loc EXCEPT ![c].backups =
                 SortByCreatedOn({b \in ListBackupsValues :
                                    StartsWith(b.name, UPDATE_BACKUP_PREFIX)})]
    /\ Goto(c, "h_trim")
    /\ UNCHANGED <<env, k8s_started, snapshots, backup_dirs, k8s, op, arg,
                   calls, ncalls, faults>>

\* the call of c returns to the idle slot
Returned(f, c, idle) == [f EXCEPT ![c] = idle]

\* lines 178-181 popping the newest backup: backups.pop()
HookTrimNewest(c) ==
    /\ pc[c] = "h_trim"
    /\ LET d == Callee(c)
           backups == loc[c].backups
           backup == backups[Len(backups)]
       IN IF Len(backups) >= 3
          THEN /\ ncalls < MaxCalls
               /\ ncalls' = ncalls + 1
               /\ pc' = [pc EXCEPT ![c] = "h_delete", ![d] = "d_validate"]
               /\ op' = [op EXCEPT ![d] = "delete"]
               /\ arg' = [arg EXCEPT ![d] = backup.name]
               /\ loc' = [loc EXCEPT ![c].backups = SubSeq(backups, 1, Len(backups) - 1),
                                     ![c].backup = backup]
          ELSE /\ pc' = [pc EXCEPT ![c] = "h_backup"]
               /\ UNCHANGED <<ncalls, op, arg, loc>>
    /\ UNCHANGED <<env, k8s_started, snapshots, backup_dirs, k8s, result, calls, faults>>

\* lines 178-181: while len(backups) >= 3 the oldest backup is popped and
\* kubernetes.delete_backup is called with its name
HookTrim(c) ==
    /\ pc[c] = "h_trim"
    /\ LET d == Callee(c)
           backups == loc[c].backups
       IN IF Len(backups) >= 3
          THEN /\ ncalls < MaxCalls
               /\ ncalls' = ncalls + 1
               /\ pc' = [pc EXCEPT ![c] = "h_delete", ![d] = "d_validate"]
               /\ op' = [op EXCEPT ![d] = "delete"]
               /\ arg' = [arg EXCEPT ![d] = Head(backups).name]
               /\ loc' = [loc EXCEPT ![c].backups = Tail(backups),
                                     ![c].backup = Head(backups)]
          ELSE /\ pc' = [pc EXCEPT ![c] = "h_backup"]
               /\ UNCHANGED <<ncalls, op, arg, loc>>
    /\ UNCHANGED <<env, k8s_started, snapshots, backup_dirs, k8s, result, calls, faults>>

\* lines 181-186 without the break: after a delete_backup that raised the
\* loop goes on with the next backup
HookDeletedNoBreak(c) ==
    /\ pc[c] = "h_delete"
    /\ LET d == Callee(c)
       IN /\ pc[d] = "done"
          /\ pc' = [pc EXCEPT ![c] = "h_trim", ![d] = "idle"]
          /\ loc' = [loc EXCEPT
                       ![c].deleted = IF result[d] = "ok"
                                      THEN Append(@, loc[c].backup) ELSE @,
                       ![c].failed = result[d] # "ok",
                       ![d] = NoLocals]
          /\ op' = Returned(op, d, "none")
          /\ arg' = Returned(arg, d, NULL)
          /\ calls' = Returned(calls, d, <<>>)
          /\ result' = Returned(result, d, "none")
    /\ UNCHANGED <<env, k8s_started, snapshots, backup_dirs, k8s, ncalls, faults>>

\* lines 181-186: delete_backup has returned, or it has raised: the error is
\* logged and the loop is left
HookDeleted(c) ==
    /\ pc[c] = "h_delete"
    /\ LET d == Callee(c)
       IN /\ pc[d] = "done"
          /\ pc' = [pc EXCEPT ![c] = IF result[d] = "ok" THEN "h_trim" ELSE "h_backup",
                              ![d] = "idle"]
          /\ loc' = [loc EXCEPT
                       ![c].deleted = IF result[d] = "ok"
                                      THEN Append(@, loc[c].backup) ELSE @,
                       ![c].failed = result[d] # "ok",
                       ![d] = NoLocals]
          /\ op' = Returned(op, d, "none")
          /\ arg' = Returned(arg, d, NULL)
          /\ calls' = Returned(calls, d, <<>>)
          /\ result' = Returned(result, d, "none")
    /\ UNCHANGED <<env, k8s_started, snapshots, backup_dirs, k8s, ncalls, faults>>

\* lines 188-190: the backup_chart_releases job is queued
HookBackup(c) ==
    /\ pc[c] = "h_backup"
    /\ ncalls < MaxCalls
    /\ ncalls' = ncalls + 1
    /\ LET d == Callee(c)
       IN \E t \in Now :
            /\ pc' = [pc EXCEPT ![c] = "h_wait", ![d] = "wait"]
            /\ op' = [op EXCEPT ![d] = "backup"]
            /\ arg' = [arg EXCEPT ![d] = UpdateName(t)]
    /\ UNCHANGED <<env, k8s_started, snapshots, backup_dirs, k8s, loc, result, calls,
                   faults>>

\* lines 191-193: the job has ended; its error is logged
HookWait(c) ==
    /\ pc[c] = "h_wait"
    /\ LET d == Callee(c)
       IN /\ pc[d] = "done"
          /\ pc' = [pc EXCEPT ![c] = "done", ![d] = "idle"]
          /\ result' = [result EXCEPT ![c] = "ok", ![d] = "none"]
          /\ loc' = [loc EXCEPT ![c].name = IF result[d] = "ok" THEN arg[d] ELSE NULL,
                                ![d] = NoLocals]
          /\ op' = Returned(op, d, "none")
          /\ arg' = Returned(arg, d, NULL)
          /\ calls' = Returned(calls, d, <<>>)
    /\ UNCHANGED <<env, k8s_started, snapshots, backup_dirs, k8s, ncalls, faults>>

\* the hook has returned
HookReturn(c) == op[c] = "hook" /\ Return(c)

HookStepOf(c) ==
    \/ HookInvoke(c)
    \/ HookConfig(c)
    \/ HookList(c)
    \/ HookTrim(c)
    \/ HookDeleted(c)
    \/ HookBackup(c)
    \/ HookWait(c)
    \/ HookReturn(c)
    \/ JobStart(c)
    \/ BackupValidate(c)
    \/ BackupSnapshotQuery(c)
    \/ BackupListBackups(c)
    \/ BackupMakedirs(c)
    \/ BackupReleaseQuery(c)
    \/ BackupExport(c)
    \/ BackupSnapshot(c)
    \/ DeleteValidate(c)
    \/ DeleteSnapshotDelete(c)
    \/ DeleteRmtree(c)
    \/ CollaboratorRaises(c)

HookNext == \E c \in Callers : HookStepOf(c)

HookSpec == HookInit /\ [][HookNext]_vars

\* ------------------------------------------------------------------ C24
\* the backups list_backups returns whose name starts with the update prefix
UpdateBackups == {b \in ListBackupsValues : StartsWith(b.name, UPDATE_BACKUP_PREFIX)}

HookEnded(c) == op[c] = "hook" /\ pc[c] = "done"

\* the backups the hook of c deleted are the oldest by created_on of those it
\* listed, and were deleted oldest first
DeletedOldestFirst(c) ==
    LET deleted == loc[c].deleted
        kept == loc[c].backups
    IN /\ \A i, j \in 1..Len(deleted) :
             i < j => deleted[i].created_on < deleted[j].created_on
       /\ \A i \in 1..Len(deleted) :
             /\ \A j \in 1..Len(kept) : deleted[i].created_on < kept[j].created_on
             /\ loc[c].failed => deleted[i].created_on < loc[c].backup.created_on
             /\ deleted[i].name \notin {b.name : b \in UpdateBackups}

\* C24 as stated: after post_system_update_hook has run, at most 2 backups
\* whose name starts with the system-update prefix exist, and the backups it
\* deleted are the oldest by created_on, deleted oldest first.
C24_AtMostTwoUpdateBackups ==
    \A c \in Callers :
        HookEnded(c) => (Cardinality(UpdateBackups) <= 2 /\ DeletedOldestFirst(c))

\* C24: post_system_update_hook deletes update backups, the oldest by
\* created_on first, until fewer than 3 are left, and then creates one: after
\* a run in which no delete_backup call failed at most 3 update backups
\* exist, at most 2 of them older than the run.
C24_AtMostThreeUpdateBackups ==
    \A c \in Callers :
        HookEnded(c) =>
            /\ DeletedOldestFirst(c)
            /\ ~loc[c].failed =>
                  /\ Len(loc[c].backups) <= 2
                  /\ Cardinality(UpdateBackups) <= 3
                  /\ Cardinality({b \in UpdateBackups : b.name # loc[c].name}) <= 2

\* the hook has deleted the two oldest of four update backups and has made a
\* new one: three exist
C24_Witness ==
    \E c \in Callers :
        /\ HookEnded(c)
        /\ ~loc[c].failed
        /\ Len(loc[c].deleted) = 2
        /\ loc[c].name # NULL
        /\ Cardinality(UpdateBackups) = 3

\* ------------------------------------- restore_backup and catalog sync jobs
\* the backup "x" of both releases exists
SyncDirs ==
    [n \in ValidNames |->
        IF n = "x"
        THEN [exists |-> TRUE, rel |-> [r \in Releases |-> ExportedRelease(r, "done")]]
        ELSE NoDir]

SyncInit ==
    /\ config_json = "current"
    /\ pool_configured = TRUE
    /\ passthrough_mode = FALSE
    /\ k8s_started = TRUE
    /\ k8s = [r \in Releases |-> [ns |-> TRUE, secrets |-> SecretNames]]
    /\ backup_dirs = SyncDirs
    /\ snapshots = <<[id |-> SnapId("x"), content |-> SyncDirs]>>
    /\ releases_datasets \in {{}, Releases}
    /\ pc = [c \in Callers |-> "idle"]
    /\ op = [c \in Callers |-> "none"]
    /\ arg = [c \in Callers |-> NULL]
    /\ loc = [c \in Callers |-> NoLocals]
    /\ result = [c \in Callers |-> "none"]
    /\ calls = [c \in Callers |-> <<>>]
    /\ ncalls = 0
    /\ faults = 0
    /\ STATUS = APPS_STATUS("RUNNING", Description("RUNNING", NoExtra))
    /\ alerts = {}
    /\ START_LOCK = NULL
    /\ post_start_tasks = 0
    /\ taints = <<>>
    /\ taint_call = NoTaintCall
    /\ frame = [c \in Callers |-> NoFrame]

\* catalog.sync or catalog.sync_all is called: the job is queued with a new id
SyncInvoke(c) ==
    /\ pc[c] = "idle"
    /\ ncalls < MaxCalls
    /\ ncalls' = ncalls + 1
    /\ op' = [op EXCEPT ![c] = "sync"]
    /\ arg' = [arg EXCEPT ![c] = NULL]
    /\ loc' = [loc EXCEPT ![c] = [NoLocals EXCEPT !.id = ncalls + 1]]
    /\ calls' = [calls EXCEPT ![c] = <<>>]
    /\ result' = [result EXCEPT ![c] = "none"]
    /\ pc' = [pc EXCEPT ![c] = "wait"]
    /\ UNCHANGED <<env, k8s_started, snapshots, backup_dirs, k8s, faults>>

\* the catalogs are synced: the job ends
SyncFinish(c) ==
    /\ pc[c] = "sy_run"
    /\ Finish(c, "ok")
    /\ UNCHANGED <<env, k8s_started, snapshots, backup_dirs, k8s, op, arg, loc,
                   calls, ncalls, faults>>

SyncStepOf(c) ==
    \/ Invoke(c, "restore", "x")
    \/ SyncInvoke(c)
    \/ SyncFinish(c)
    \/ JobStart(c)
    \/ Return(c)
    \/ RestoreValidate(c)
    \/ RestoreServiceStop(c)
    \/ ServiceStopBefore(c)
    \/ ServiceStopUnit(c)
    \/ ServiceStopAfter(c)
    \/ RestorePrepare(c)
    \/ RestoreSyncAbort(c)
    \/ RestoreSyncWait(c)
    \/ RestoreDatasetDelete(c)
    \/ RestoreRollback(c)
    \/ RestoreDatasetCreate(c)
    \/ RestoreCleanK3s(c)
    \/ RestoreServiceStart(c)
    \/ RestoreNodeWait(c)
    \/ RestoreListReleases(c)
    \/ RestoreImport(c)
    \/ RestoreCreateResources(c)
    \/ RestoreScale(c)

SyncNext == \E c \in Callers : SyncStepOf(c)

SyncSpec == SyncInit /\ [][SyncNext]_vars

\* ------------------------------------------------------------------ C23
\* C23: in every interleaving of restore_backup with catalog sync jobs, the
\* sync jobs that were WAITING are aborted and those that were RUNNING have
\* ended before restore goes on, and no catalog sync job is RUNNING while
\* restore deletes the datasets and rolls back the snapshot.
C23_NoSyncDuringRollback ==
    \A c \in Callers :
        (op[c] = "restore" /\ pc[c] \in {"r_dataset_delete", "r_rollback"}) =>
            /\ \A j \in loc[c].catalog_sync_jobs : ~JobIs(j.id, "RUNNING")
            /\ \A d \in SyncJobs : JobState(d) # "RUNNING"

\* ------------------------------------------------------------------ C31
\* C31: the step that ends a post_start_impl run without error leaves no
\* 'ApplicationsStartFailed' alert and the status RUNNING, and a step of
\* post_start_impl sets the status to RUNNING only in a run in which nothing
\* has raised and which ends without error.
C31_SuccessClearsAlert ==
    [][\A c \in Callers :
         (InImpl(c) /\ pc'[c] # pc[c]) =>
            /\ (Ends(c) /\ result'[c] = "ok") =>
                  /\ ~Alerted("ApplicationsStartFailed")'
                  /\ STATUS' = APPS_STATUS("RUNNING", Description("RUNNING", NoExtra))
            /\ (STATUS'.status = "RUNNING" /\ STATUS' # STATUS) =>
                  /\ frame[c].e = NoExc
                  /\ Ends(c) /\ result'[c] = "ok"
      ]_vars

\* a post_start that failed has raised the alert, and the post_start after it
\* has ended without error: the alert is gone and the status is RUNNING
C31_Witness ==
    \E c, d \in Callers :
        /\ op[d] = "post_start" /\ pc[d] = "done" /\ result[d] # "ok"
        /\ op[c] = "post_start" /\ pc[c] = "done" /\ result[c] = "ok"
        /\ frame[c].blocked = FALSE
        /\ ~Alerted("ApplicationsStartFailed")
        /\ STATUS.status = "RUNNING"

\* -------------------------- restore_backup next to the post_start it starts
WaitStepOf(c) ==
    \/ Invoke(c, "restore", "x")
    \/ JobStart(c)
    \/ RestoreValidate(c)
    \/ RestoreServiceStop(c)
    \/ ServiceStopBefore(c)
    \/ ServiceStopUnit(c)
    \/ ServiceStopAfter(c)
    \/ RestorePrepare(c)
    \/ RestoreSyncAbort(c)
    \/ RestoreSyncWait(c)
    \/ RestoreDatasetDelete(c)
    \/ RestoreRollback(c)
    \/ RestoreDatasetCreate(c)
    \/ RestoreCleanK3s(c)
    \/ RestoreServiceStart(c)
    \/ RestoreNodeWait(c)
    \/ RestoreListReleases(c)
    \/ RestoreImport(c)
    \/ RestoreCreateResources(c)
    \/ RestoreScale(c)
    \/ CollaboratorRaises(c)
    \/ StartStepOf(c)

WaitNext == \E c \in Callers : WaitStepOf(c)

WaitSpec == SyncInit /\ [][WaitNext]_vars

\* ------------------------------------------------------------------ C32
\* the stages of restore_backup from the import loop on
ImportStages == {"r_list_releases", "r_import", "r_create_resources", "r_scale"}

\* C32: restore_backup leaves the wait of lines 102-107 for the import only
\* by a poll of k8s.node.config that reports the node configured and without
\* taints, taken while the node has no taint; any other poll leaves it
\* waiting, after however many polls, and a restore is at the import only
\* after such a poll.
C32_WaitsForNode ==
    [][\A c \in Callers :
         /\ (pc[c] = "r_node_wait" /\ pc'[c] # "r_node_wait") =>
               \/ /\ pc'[c] = "r_list_releases"
                  /\ loc'[c].config = [node_configured |-> TRUE, taints |-> <<>>]
                  /\ taints = <<>>
               \/ pc'[c] = "done" /\ result'[c] = "Error" /\ faults' = faults + 1
         /\ (pc[c] = "r_node_wait" /\ loc'[c].config # loc[c].config
             /\ ~(loc'[c].config.node_configured /\ loc'[c].config.taints = <<>>)) =>
               pc'[c] = "r_node_wait"
         /\ (op[c] = "restore" /\ pc'[c] \in ImportStages) =>
               loc'[c].config = [node_configured |-> TRUE, taints |-> <<>>]
      ]_vars

\* a restore has polled while the post_start it started holds the node
\* tainted, and waits
C32_Witness ==
    \E c, d \in Callers :
        /\ op[c] = "restore" /\ pc[c] = "r_node_wait"
        /\ loc[c].config.node_configured /\ loc[c].config.taints # <<>>
        /\ op[d] = "post_start" /\ InImpl(d)

\* ------------------------------------------------------------------ C33
\* where the restore of c made a zfs call on a dataset
ZfsIdx(c, call, name) ==
    {i \in 1..Len(loc[c].zfs) : loc[c].zfs[i][1] = call /\ loc[c].zfs[i][2] = name}

RollbackIdx(c) ==
    {i \in 1..Len(loc[c].zfs) : loc[c].zfs[i][1] = "zfs.snapshot.rollback"}

\* every excluded dataset is deleted, by force and recursively, before the
\* rollback, the rollback has its four options set, and a dataset is created
\* only after the rollback
RollbackBetween(c) ==
    LET fresh_datasets == to_ignore_datasets_on_backup(ConfigDataset)
    IN /\ \A j \in RollbackIdx(c) :
            /\ loc[c].zfs[j] = <<"zfs.snapshot.rollback", loc[c].backup.snapshot_name,
                                 {"force", "recursive", "recursive_clones",
                                  "recursive_rollback"}>>
            /\ \A k \in 1..Len(fresh_datasets) :
                  \E i \in ZfsIdx(c, "zfs.dataset.delete", fresh_datasets[k].name) :
                      i < j /\ loc[c].zfs[i][3] = {"force", "recursive"}
       /\ \A k \in 1..Len(fresh_datasets) :
            \A i \in ZfsIdx(c, "zfs.dataset.create", fresh_datasets[k].name) :
                \E j \in RollbackIdx(c) : j < i

ServiceStarted(c) == \E i \in 1..Len(calls[c]) : calls[c][i] = <<"service.start">>

\* C33 as stated: by the time the service is started again every excluded
\* dataset has been created anew with its creation properties and mounted.
C33_AllMounted ==
    \A c \in Callers :
        LET fresh_datasets == to_ignore_datasets_on_backup(ConfigDataset)
        IN /\ RollbackBetween(c)
           /\ ServiceStarted(c) =>
                \A k \in 1..Len(fresh_datasets) :
                    \E i \in ZfsIdx(c, "zfs.dataset.create", fresh_datasets[k].name) :
                        /\ loc[c].zfs[i][3] = fresh_datasets[k].creation_props
                        /\ \E m \in ZfsIdx(c, "zfs.dataset.mount", fresh_datasets[k].name) :
                               i < m

\* C33: every excluded dataset is deleted before the rollback, the rollback
\* is called with force, recursive, recursive_clones and recursive_rollback,
\* and by the time the service is started again every excluded dataset has
\* been created anew after the rollback with its creation properties;
\* zfs.dataset.mount follows for the datasets whose 'mount' is set (catalogs)
\* and is not called for the others (k3s/kubelet, mountpoint legacy).
C33_MountedWhenAsked ==
    \A c \in Callers :
        LET fresh_datasets == to_ignore_datasets_on_backup(ConfigDataset)
        IN /\ RollbackBetween(c)
           /\ ServiceStarted(c) =>
                \A k \in 1..Len(fresh_datasets) :
                    /\ \E i \in ZfsIdx(c, "zfs.dataset.create", fresh_datasets[k].name) :
                          /\ loc[c].zfs[i][3] = fresh_datasets[k].creation_props
                          /\ fresh_datasets[k].mount =>
                                \E m \in ZfsIdx(c, "zfs.dataset.mount",
                                                fresh_datasets[k].name) : i < m
                    /\ ~fresh_datasets[k].mount =>
                          ZfsIdx(c, "zfs.dataset.mount", fresh_datasets[k].name) = {}

\* a restore has started the service again after the rollback, with catalogs
\* mounted and k3s/kubelet created with mountpoint legacy
C33_Witness ==
    \E c \in Callers :
        /\ op[c] = "restore" /\ pc[c] = "r_node_wait" /\ ServiceStarted(c)
        /\ RollbackIdx(c) # {}
        /\ ZfsIdx(c, "zfs.dataset.mount", PathJoin(ConfigDataset, <<"catalogs">>)) # {}
        /\ \E i \in ZfsIdx(c, "zfs.dataset.create",
                           PathJoin(ConfigDataset, <<"k3s", "/", "kubelet">>)) :
               loc[c].zfs[i][3] = {"mountpoint=legacy"}

\* ------------------------------------------------------------------ C34
\* C34: a restore that has gone past the creation of the resources without
\* a collaborator raising has triggered chart.release.redeploy_internal for
\* every release it imported, and its scale calls come after them.
C34_RedeployEveryRestored ==
    \A c \in Callers :
        (op[c] = "restore" /\ (pc[c] = "r_scale" \/ (pc[c] = "done" /\ result[c] # "Error"))) =>
            \A e \in loc[c].restored :
                \E i \in 1..Len(calls[c]) :
                    /\ calls[c][i] = <<"chart.release.redeploy_internal", e.name>>
                    /\ \A j \in 1..Len(calls[c]) :
                          calls[c][j][1] = "chart.release.scale_release_internal" => i < j

\* --------------------------- restore_backup of a backup as found on disk
\* what an export can leave of a release: every file written, or the files
\* written up to the stage the export stopped at
ExportStates(r) == {ExportedRelease(r, stage) : stage \in FailStages(r) \cup {"done"}}

ImportDirs(rel) == [n \in ValidNames |-> IF n = "x" THEN [exists |-> TRUE, rel |-> rel] ELSE NoDir]

ImportInit ==
    /\ config_json = "current"
    /\ pool_configured = TRUE
    /\ passthrough_mode = FALSE
    /\ k8s_started = TRUE
    /\ k8s = [r \in Releases |-> [ns |-> TRUE, secrets |-> SecretNames]]
    /\ \E rel \in [Releases -> UNION {ExportStates(r) : r \in Releases}] :
          /\ \A r \in Releases : rel[r] \in ExportStates(r)
          /\ backup_dirs = ImportDirs(rel)
          /\ snapshots = <<[id |-> SnapId("x"), content |-> ImportDirs(rel)]>>
    /\ releases_datasets \in {{}, Releases}
    /\ pc = [c \in Callers |-> "idle"]
    /\ op = [c \in Callers |-> "none"]
    /\ arg = [c \in Callers |-> NULL]
    /\ loc = [c \in Callers |-> NoLocals]
    /\ result = [c \in Callers |-> "none"]
    /\ calls = [c \in Callers |-> <<>>]
    /\ ncalls = 0
    /\ faults = 0
    /\ STATUS = APPS_STATUS("RUNNING", Description("RUNNING", NoExtra))
    /\ alerts = {}
    /\ START_LOCK = NULL
    /\ post_start_tasks = 0
    /\ taints = <<>>
    /\ taint_call = NoTaintCall
    /\ frame = [c \in Callers |-> NoFrame]

ImportSpec == ImportInit /\ [][SyncNext]_vars

\* ------------------------------------------------------------------ C35
\* the export of release r in the backup of c lacks something the import
\* needs, or the dataset of r is gone
Incomplete(c, r) ==
    LET entry == backup_dirs[loc[c].backup.backup_path].rel[r]
    IN \/ r \notin releases_datasets
       \/ entry.ns.state # "full"
       \/ ~entry.secdir
       \/ entry.secrets = {}
       \/ entry.counts.state # "full"

\* C35: an iteration of the import loop over a release whose dataset is gone
\* or whose export lacks a required artifact (namespace.yaml, a secret,
\* workloads_replica_counts.json; missing or empty) creates nothing and goes
\* on with the next release.
C35_IncompleteSkipped ==
    [][\A c \in Callers :
         (pc[c] = "r_import" /\ loc'[c] # loc[c] /\ faults' = faults
          /\ Incomplete(c, loc[c].releases[loc[c].index + 1])) =>
              /\ pc'[c] \in {"r_import", "r_create_resources"}
              /\ loc'[c].index = loc[c].index + 1
              /\ k8s' = k8s /\ calls' = calls
      ]_vars

\* ------------------------------------------- list_backups called directly
\* a backup directory: absent, or holding the exports of some releases
DirStates ==
    {NoDir} \cup
    {[exists |-> TRUE,
      rel |-> [r \in Releases |-> IF r \in S THEN ExportedRelease(r, "done") ELSE NoRelease]] :
        S \in SUBSET Releases}

\* snapshots of the applications dataset: of backups, and one that is no backup
SnapshotLists ==
    {<<>>} \cup
    {<<[id |-> a, content |-> [n \in ValidNames |-> NoDir]]>> :
        a \in {SnapId("x"), <<Dataset, SnapNameBare("x")>>}} \cup
    {<<[id |-> SnapId("x"), content |-> [n \in ValidNames |-> NoDir]],
       [id |-> b, content |-> [n \in ValidNames |-> NoDir]]>> :
        b \in {SnapId("2024-01-01_00:00:00"), <<Dataset, SnapNameBare("x")>>}}

ListInit ==
    /\ config_json = "current"
    /\ pool_configured \in BOOLEAN
    /\ passthrough_mode \in BOOLEAN
    /\ (~pool_configured => ~passthrough_mode)
    /\ k8s_started = TRUE
    /\ k8s = [r \in Releases |-> [ns |-> TRUE, secrets |-> SecretNames]]
    /\ backup_dirs \in [ValidNames -> DirStates]
    /\ snapshots \in SnapshotLists
    /\ (snapshots # <<>> => pool_configured /\ ~passthrough_mode)
    /\ releases_datasets \in SUBSET Releases
    /\ pc = [c \in Callers |-> "idle"]
    /\ op = [c \in Callers |-> "none"]
    /\ arg = [c \in Callers |-> NULL]
    /\ loc = [c \in Callers |-> NoLocals]
    /\ result = [c \in Callers |-> "none"]
    /\ calls = [c \in Callers |-> <<>>]
    /\ ncalls = 0
    /\ faults = 0
    /\ STATUS = APPS_STATUS("RUNNING", Description("RUNNING", NoExtra))
    /\ alerts = {}
    /\ START_LOCK = NULL
    /\ post_start_tasks = 0
    /\ taints = <<>>
    /\ taint_call = NoTaintCall
    /\ frame = [c \in Callers |-> NoFrame]

\* kubernetes.list_backups is called
ListInvoke(c) ==
    /\ pc[c] = "idle"
    /\ ncalls < MaxCalls
    /\ ncalls' = ncalls + 1
    /\ op' = [op EXCEPT ![c] = "list"]
    /\ pc' = [pc EXCEPT ![c] = "l_list"]
    /\ UNCHANGED <<env, k8s_started, snapshots, backup_dirs, k8s, arg, loc, result,
                   calls, faults>>

\* backup.py lines 107-146: list_backups returns its dict
ListReturn(c) ==
    /\ pc[c] = "l_list"
    /\ loc' = [loc EXCEPT ![c].listed = ListBackupsValues]
    /\ Finish(c, "ok")
    /\ UNCHANGED <<env, k8s_started, snapshots, backup_dirs, k8s, op, arg, calls,
                   ncalls, faults>>

\* someone removes the directory of a backup
ExternalRmtree(n) ==
    /\ backup_dirs[n].exists
    /\ backup_dirs' = [backup_dirs EXCEPT ![n] = NoDir]
    /\ UNCHANGED <<env, k8s_started, snapshots, k8s, pc, op, arg, loc, result, calls,
                   ncalls, faults>>

ListNext ==
    \/ \E c \in Callers : ListInvoke(c) \/ ListReturn(c) \/ Return(c)
    \/ \E n \in ValidNames : ExternalRmtree(n)

ListSpec == ListInit /\ [][ListNext]_vars

\* ------------------------------------------------------------------ C36
\* the backups that have a snapshot with the prefix and a directory
WithSnapshotAndDir ==
    {n \in ValidNames :
        /\ \E i \in 1..Len(snapshots) :
              snapshots[i].id = <<Dataset, <<BACKUP_NAME_PREFIX, n>>>>
        /\ backup_dirs[n].exists}

C37_FailedDeleteStopsRetention ==
    [][\A c \in Callers :
         (op[c] = "hook" /\ op'[c] = "hook") =>
            /\ (pc[c] = "h_delete" /\ pc'[c] # "h_delete" /\ result[Callee(c)] # "ok") =>
                  /\ pc'[c] = "h_backup"
                  /\ loc'[c].failed
                  /\ loc'[c].deleted = loc[c].deleted
            /\ loc[c].failed =>
                  /\ loc'[c].failed
                  /\ loc'[c].deleted = loc[c].deleted
                  /\ pc'[c] \notin {"h_trim", "h_delete"}
                  /\ op'[Callee(c)] = "delete" => op[Callee(c)] = "delete"
                  /\ (pc[c] = "h_backup" /\ pc'[c] # "h_backup") =>
                        /\ pc'[c] = "h_wait"
                        /\ op'[Callee(c)] = "backup"
                        /\ arg'[Callee(c)] \in UpdateNames
      ]_vars

\* a hook whose first delete_backup raised has ended: it deleted nothing,
\* though its list still held three backups, and the new backup was made
C37_Witness ==
    \E c \in Callers :
        /\ op[c] = "hook" /\ pc[c] = "done"
        /\ loc[c].failed /\ loc[c].deleted = <<>>
        /\ loc[c].name # NULL /\ loc[c].name \in ListBackups
        /\ Len(loc[c].backups) >= 3

\* ------------------------------------------------------------------ C38
\* C38: restore_backup of a name that list_backups does not return ends with
\* CallError ENOENT in its first step and has changed nothing: the service
\* state, the status, the snapshots, the datasets, the directories, the
\* cluster and the other calls are as before, and it has made no call.
C38_UnknownBackupNoEffect ==
    [][\A c \in Callers :
         (op[c] = "restore" /\ pc[c] = "r_validate" /\ pc'[c] # "r_validate"
          /\ arg[c] \notin ListBackups /\ faults' = faults) =>
            /\ pc'[c] = "done" /\ result'[c] = "CallError:ENOENT"
            /\ calls[c] = <<>> /\ calls'[c] = <<>>
            /\ loc'[c].zfs = <<>> /\ loc'[c].catalog_sync_jobs = {}
            /\ loc'[c].progress = <<>>
            /\ UNCHANGED <<k8s_started, STATUS, snapshots, backup_dirs,
                           releases_datasets, k8s, alerts, taints, post_start_tasks>>
            /\ \A d \in Callers \ {c} : pc'[d] = pc[d] /\ result'[d] = result[d]
      ]_vars

\* a restore of a name without a backup has failed while the service runs
\* and another backup exists
C38_Witness ==
    \E c \in Callers :
        /\ op[c] = "restore" /\ pc[c] = "done" /\ result[c] = "CallError:ENOENT"
        /\ arg[c] \notin ListBackups /\ ListBackups # {}
        /\ k8s_started /\ calls[c] = <<>>

\* ------------------------------------------- status_change and config.json
\* config.json is missing or unreadable, differs from the configuration, or
\* agrees with it
ConfigInit ==
    /\ Quiet
    /\ config_json \in {"none", "stale", "current"}
    /\ pool_configured \in BOOLEAN
    /\ k8s_started \in BOOLEAN
    /\ STATUS = APPS_STATUS("PENDING", Description("PENDING", NoExtra))
    /\ taints = <<>>

ConfigStepOf(c) ==
    \/ LifeInvoke(c, "status_change")
    \/ ServiceStopBefore(c)
    \/ ServiceStopUnit(c)
    \/ ServiceStopAfter(c)
    \/ StatusChangeConfig(c)
    \/ StatusChangeSetup(c)
    \/ StatusChangeInit(c)
    \/ StatusChangeValidate(c)
    \/ StatusChangeStart(c)
    \/ StatusChangeFail(c)
    \/ StatusChangeFinish(c)
    \/ StartStepOf(c)

ConfigNext == \E c \in Callers : ConfigStepOf(c)

ConfigSpec == ConfigInit /\ [][ConfigNext]_vars

\* ------------------------------------------------------------------ C39
\* C39: config.json is written only by the last step of a status_change
\* whose status_change_internal raised nothing and started the service.  The
\* step that handles an exception of status_change_internal creates the
\* 'ApplicationsConfigurationFailed' alert with the error text, sets the
\* status to FAILED with that text, ends the call with the error and leaves
\* config.json as it is: absent after a clean start, else as it agreed.
C39_ConfigWrittenOnSuccess ==
    [][/\ (config_json' = "current" /\ config_json # "current") =>
             \E c \in Callers :
                 /\ op[c] = "status_change" /\ pc[c] = "sc_finish"
                 /\ frame[c].e = NoExc
                 /\ pc'[c] = "done" /\ result'[c] = "ok"
       /\ \A c \in Callers :
            (op[c] = "status_change" /\ pc[c] = "sc_fail" /\ pc'[c] # "sc_fail") =>
                /\ [klass |-> "ApplicationsConfigurationFailed",
                    error |-> Str(frame[c].e)] \in alerts'
                /\ STATUS' = APPS_STATUS("FAILED", Description("FAILED", Str(frame[c].e)))
                /\ Str(frame[c].e) # NoExtra
                /\ pc'[c] = "done" /\ result'[c] \in {"CallError", "Error"}
                /\ config_json' = config_json
                /\ frame[c].clean_start => config_json # "stale"
       /\ \A c \in Callers :
            (op[c] = "status_change" /\ pc[c] = "sc_setup" /\ pc'[c] # "sc_setup") =>
                /\ frame'[c].clean_start = (config_json # "current")
                /\ config_json' = IF config_json = "current" THEN "current" ELSE "none"
      ]_vars

\* a status_change that made a clean start has failed: the alert is there,
\* the status is FAILED and there is no config.json
C39_Witness ==
    \E c \in Callers :
        /\ op[c] = "status_change" /\ pc[c] = "done" /\ result[c] # "ok"
        /\ config_json = "none" /\ releases_datasets = {}
        /\ Alerted("ApplicationsConfigurationFailed")
        /\ STATUS.status = "FAILED"

\* ------------------------------------------------------------------ C40
\* where the restore of c called chart.release.scale_release_internal for r
ScaledAt(c, r) ==
    {i \in 1..Len(calls[c]) :
        /\ calls[c][i][1] = "chart.release.scale_release_internal"
        /\ calls[c][i][2] = r}

\* C40: an iteration of the import loop that skips its release adds nothing
\* to the restored releases, and restore_backup calls scale_release_internal
\* only for a release it has imported in this run and that is in the cluster
\* after the redeploys, with the replica counts it imported, and at most once
\* for a release.
C40_ScalesOnlyImported ==
    [][\A c \in Callers :
         op'[c] = "restore" =>
            /\ (pc[c] = "r_import" /\ loc'[c].index = loc[c].index + 1
                /\ LET r == loc[c].releases[loc[c].index + 1]
                       entry == backup_dirs[loc[c].backup.backup_path].rel[r]
                   IN \/ r \notin releases_datasets
                      \/ entry.ns.state = "none" \/ ~entry.secdir
                      \/ entry.secrets = {}) =>
                  loc'[c].restored = loc[c].restored
            /\ \A r \in Releases :
                  /\ Cardinality(ScaledAt(c, r)') <= 1
                  /\ \A i \in ScaledAt(c, r)' :
                        /\ \E e \in loc'[c].restored :
                              e.name = r /\ e.replica_counts = calls'[c][i][3]
                        /\ k8s'[r].ns
      ]_vars

\* a restore has ended well with releases in the backup that it skipped, and
\* has scaled none of them
C40_Witness ==
    \E c \in Callers :
        /\ op[c] = "restore" /\ pc[c] = "done" /\ result[c] = "ok"
        /\ Len(loc[c].releases) = 2 /\ loc[c].restored = {}
        /\ \A r \in Releases : ScaledAt(c, r) = {}

====
